---- MODULE Spec2Model ----
(***************************************************************************)
(* zecs: the observer (src/src/observe.ts, class Observer), the query it   *)
(* scans with (src/src/query.ts, class Query), the entity store it scans   *)
(* (src/src/ecs.ts, class ECS) and the dependency scheduler                *)
(* (src/src/schedule.ts, class Schedule).                                  *)
(*                                                                         *)
(* Observer.update is synchronous, but every emit() runs listener code,    *)
(* and listener code may edit entities, add to or remove from the store,   *)
(* or call update() again.  A cycle is therefore modelled as a call frame  *)
(* that stops at every emit; while a frame is stopped there, the store     *)
(* actions and a nested update() are enabled, exactly as they are between  *)
(* two update() calls of the main program.  The listeners of the plain     *)
(* observer do not throw, except in ThrowSpec; those that attachSystem     *)
(* (src/src/system.ts) installs throw where its code does, and the model   *)
(* follows a unit up to that error.                                        *)
(*                                                                         *)
(* For the observer, store ids are abstracted: every stored object has     *)
(* exactly one id, so a stored entity is named by its object (an object is *)
(* never stored under two ids at once; see add).  The ids and the aliases  *)
(* of the store are modelled apart, in the variable `store` (StoreSpec).   *)
(***************************************************************************)
EXTENDS Integers, Sequences, FiniteSets, TLC

\* ---------------------------------------------------------------- bounds
NumEnts == 2
NumWide == 3
MaxDepth == 2
MaxThrowDepth == 1
MaxStops == 2

\* the entity objects: those of the three-entity store (see WideInit), of
\* which the other specifications allocate the first NumEnts
Ents == 1..(IF NumWide > NumEnts THEN NumWide ELSE NumEnts)
Pool == 1..NumEnts
Components == {"health"}
\* an optional component value: <<>> is "key absent", <<v>> is "key present"
OptVal == {<<>>, <<0>>, <<1>>}
Params == {"p1", "p2"}

VARIABLES
  components,   \* the objects' attribute bags: components[e][c] \in OptVal
  entities,     \* ECS.entities: the stored objects in key (insertion) order
  registry,     \* Observer.#registry, a Set: its entries in insertion order
  matched,      \* Observer.#matched
  updating,     \* Observer.#updating
  stack,        \* the update() calls in progress, outermost first
  live,         \* history: the objects whose latest lifecycle event is `matched`
  lastSeen,     \* history: the objects updated by the latest completed scan
  systems,      \* Schedule: the `systems` array given to the constructor
  deps,         \* System.deps of every unit, an array of units
  schedule,     \* where the Schedule constructor is, and the error it threw
  remainingDeps,\* the Map remainingDeps: its entries in insertion order
  steps,        \* Schedule.steps: an array of Sets, each in insertion order
  handles,      \* per unit, the promise of its attachSystem call
  shared,       \* per unit, its shared resource and the calls that made it
  unitRegistry, \* per unit, the #registry of its observer
  tick,         \* where Schedule.update is, and the history of this tick
  stops,        \* per unit, the number of handle.stop() calls
  handle,       \* attachSystem: where the handle is, and its shared resource
  each,         \* attachSystem: the Map `each` (its keys)
  res,          \* history: per entity, the resources each.create has made
  arg,          \* history: what the latest callback was called with
  receiver,     \* the Query object a method is called on
  made,         \* the Query object the latest has/where/and returned
  out,          \* what the latest call of a library function returned or threw
  evt,          \* the event streams: #listeners, the emit in progress, history
  settled,      \* history: some shared.create settled before that of a unit
  store         \* an ECS with ids and aliases: entities, aliases,
                \* #entityAliases, and the last call made on it
                \* that comes earlier in the array given to Schedule.from

observerVars == <<components, entities, registry, matched, updating, stack,
                  live, lastSeen>>
scheduleVars == <<systems, deps, schedule, remainingDeps, steps>>
tickVars == <<handles, shared, unitRegistry, tick, stops>>
sysVars == <<handle, each, res, arg>>
libVars == <<receiver, made, out, evt, settled, store>>
vars == <<observerVars, scheduleVars, tickVars, sysVars, libVars>>

\* ------------------------------------------------------------- helpers
Range(s) == {s[i] : i \in DOMAIN s}
Without(s, x) == SelectSeq(s, LAMBDA y : y # x)
Top == stack[Len(stack)]

\* --------------------------------------------------------------- Query
\* query(): the filter that accepts every entity
emptyQuery(b) == TRUE

\* mutant of has: the filter of the receiver is dropped
hasIgnoresFilter(filtered, cs, b) == \A c \in cs : b[c] # <<>>

\* Query.has: this.filter(entity) && components.every(c => c.name in entity)
has(filtered, cs, b) == filtered /\ \A c \in cs : b[c] # <<>>

\* mutant of where: the filter of the receiver is dropped
whereIgnoresFilter(filtered, passes) == passes

\* Query.where: this.filter(entity) && filter(entity)
where(filtered, passes) == filtered /\ passes

\* the observed query: query().has(health).where(({ health }) => health > 0)
\* (undefined > 0 is false)
healthPositive(b) == b["health"] # <<>> /\ b["health"][1] > 0
hasHealth(b) == has(emptyQuery(b), {"health"}, b)
alive(b) == where(hasHealth(b), healthPositive(b))

\* mutant of match: the where() filter is dropped
matchWithoutWhere(b) == hasHealth(b)

\* Query.match
match(b) == alive(b)

\* Query.query: the generator resumes its for-in over ecs.entities with the
\* keys `keys` still to visit, and runs to its next yield: the keys it leaves
\* (the head is the entity yielded; <<>> when the generator is done).
RECURSIVE query(_, _)
query(keys, comps) ==
  IF keys = <<>> THEN <<>>
  ELSE IF match(comps[Head(keys)]) THEN keys
  ELSE query(Tail(keys), comps)

\* Set iteration resumed in finishUpdate: `for (const entity of this.#registry)
\* if (!this.#matched.has(entity))` with the entries `it` still to visit runs
\* to the next entry that is not in #matched: the entries it leaves (the head
\* is the entry to delete; <<>> when the loop is over).
RECURSIVE nextUnmatched(_, _)
nextUnmatched(it, m) ==
  IF it = <<>> THEN <<>>
  ELSE IF Head(it) \notin m THEN it
  ELSE nextUnmatched(Tail(it), m)

\* ------------------------------------------------------ Query objects
\* A Query object is its filter closure, written as the call that built it:
\* query(), base.has(...cs), base.where(p), base.and(other).
MaxChain == 2
QComponents == {"health", "other"}
\* the predicates given to where(): ({ health }) => health > 0 and
\* ({ health }) => health === 0
Predicates == {"healthPositive", "healthZero"}
\* what an entity can hold: per component, no key or a value
Contents == [QComponents -> OptVal]

\* the key orders of a store: every array of distinct entities
KeyOrders ==
  {a \in UNION {[1..k -> Pool] : k \in 0..NumEnts} :
     \A i, j \in DOMAIN a : a[i] = a[j] => i = j}

\* query()
Query0 == [op |-> "query"]
NoOut ==
  [op |-> "none", self |-> Query0, with |-> <<>>, value |-> <<>>,
   error |-> ""]

\* the predicate p applied to an entity (undefined > 0 and undefined === 0
\* are false)
holds(p, b) ==
  IF p = "healthPositive" THEN healthPositive(b)
  ELSE b["health"] = <<0>>

\* Query.has(...components): new Query(entity => this.filter(entity) &&
\* components.every(...))
QueryHas(base, cs) == [op |-> "has", base |-> base, cs |-> cs]
\* Query.where(filter): new Query(entity => this.filter(entity) &&
\* filter(entity))
QueryWhere(base, p) == [op |-> "where", base |-> base, p |-> p]
\* Query.and(query): new Query(entity => this.filter(entity) &&
\* query.filter(entity))
QueryAnd(base, o) == [op |-> "and", base |-> base, other |-> o]

\* the filter closure of a Query object, applied to an entity
RECURSIVE filter(_, _)
filter(qy, b) ==
  CASE qy.op = "query" -> emptyQuery(b)
    [] qy.op = "has" -> has(filter(qy.base, b), qy.cs, b)
    [] qy.op = "where" -> where(filter(qy.base, b), holds(qy.p, b))
    [] qy.op = "and" -> filter(qy.base, b) /\ filter(qy.other, b)

\* the number of chained has / where / and calls that built the object
RECURSIVE chainLength(_)
chainLength(qy) ==
  IF qy.op = "query" THEN 0 ELSE 1 + chainLength(qy.base)

\* Query.match(entity)
matchEntity(qy, b) == filter(qy, b)

\* mutant of countLoop: the entities are counted whether they pass or not
countLoopAll(qy, keys, comps, n) == n + Len(keys)

\* Query.count: the for-in with its counter
RECURSIVE countLoop(_, _, _, _)
countLoop(qy, keys, comps, n) ==
  IF keys = <<>> THEN n
  ELSE countLoop(qy, Tail(keys), comps,
                 IF filter(qy, comps[Head(keys)]) THEN n + 1 ELSE n)
count(qy, keys, comps) == countLoop(qy, keys, comps, 0)

\* Query.query run to its end: the entities the generator yields, in order
RECURSIVE queryAll(_, _, _)
queryAll(qy, keys, comps) ==
  IF keys = <<>> THEN <<>>
  ELSE (IF matchEntity(qy, comps[Head(keys)]) THEN <<Head(keys)>> ELSE <<>>)
       \o queryAll(qy, Tail(keys), comps)

\* mutant of queryOnlyLoop: the first match is returned, later ones ignored
RECURSIVE queryOnlyLoopFirst(_, _, _, _)
queryOnlyLoopFirst(qy, keys, comps, result) ==
  IF keys = <<>>
  THEN IF result = <<>>
       THEN [value |-> <<>>, error |-> "No entity matches"]
       ELSE [value |-> result, error |-> ""]
  ELSE IF filter(qy, comps[Head(keys)])
  THEN [value |-> <<Head(keys)>>, error |-> ""]
  ELSE queryOnlyLoopFirst(qy, Tail(keys), comps, result)

\* Query.queryOnly: the for-in with `result` (<<>> is null), then the check
RECURSIVE queryOnlyLoop(_, _, _, _)
queryOnlyLoop(qy, keys, comps, result) ==
  IF keys = <<>>
  THEN IF result = <<>>
       THEN [value |-> <<>>, error |-> "No entity matches"]
       ELSE [value |-> result, error |-> ""]
  ELSE IF filter(qy, comps[Head(keys)])
  THEN IF result # <<>>
       THEN [value |-> <<>>, error |-> "More than one entity matches"]
       ELSE queryOnlyLoop(qy, Tail(keys), comps, <<Head(keys)>>)
  ELSE queryOnlyLoop(qy, Tail(keys), comps, result)
queryOnly(qy, keys, comps) == queryOnlyLoop(qy, keys, comps, <<>>)

\* the queries given to and()
Others ==
  {Query0, QueryHas(Query0, {"health"}), QueryHas(Query0, {"other"}),
   QueryWhere(Query0, "healthPositive"), QueryWhere(Query0, "healthZero")}

\* a call of has / where / and on the receiver returns a new object
returns(op, with, qy) ==
  /\ chainLength(qy) <= MaxChain
  /\ made' = qy
  /\ out' = [op |-> op, self |-> receiver, with |-> with, value |-> <<>>,
             error |-> ""]
  /\ UNCHANGED <<receiver, evt, settled, store,
                 observerVars, scheduleVars, tickVars,
                 sysVars>>

callHas(cs) == returns("has", cs, QueryHas(receiver, cs))
callWhere(p) == returns("where", p, QueryWhere(receiver, p))
callAnd(o) == returns("and", o, QueryAnd(receiver, o))

\* the program goes on with the object the call returned
chain ==
  /\ out.op \in {"has", "where", "and"}
  /\ receiver' = made
  /\ out' = NoOut
  /\ UNCHANGED <<made, evt, settled, store,
                 observerVars, scheduleVars, tickVars,
                 sysVars>>

\* a call on the receiver that returns a value or throws
answers(op, with, value, error) ==
  /\ out' = [op |-> op, self |-> receiver, with |-> with, value |-> value,
             error |-> error]
  /\ UNCHANGED <<receiver, made, evt, settled, store,
                 observerVars, scheduleVars,
                 tickVars,
                 sysVars>>

callMatch(b) == answers("match", b, matchEntity(receiver, b), "")
callCount ==
  answers("count", <<>>, count(receiver, entities, components), "")
callQuery ==
  answers("query", <<>>, queryAll(receiver, entities, components), "")
callQueryOnly ==
  LET r == queryOnly(receiver, entities, components)
  IN answers("queryOnly", <<>>, r.value, r.error)

\* ----------------------------------------------------------- EventType
\* Two event streams of one observer and the listener functions given to
\* them.  evt.listeners is #listeners of each stream, a Set in insertion
\* order.  emit() runs listener code at every call, and that code may call
\* on, off and offAll: the emit in progress is evt.run, stopped in the
\* listener run.cur with the entries run.iter still to visit.  History:
\*   offs:    the detach handles on() has returned
\*   got:     per listener, the calls it received in the latest emit
\*   sub0:    the listeners subscribed when that emit began
\*   touched: the listeners subscribed or detached while it ran
Streams == {"matched", "updated"}
Listeners == {"l1", "l2"}
MaxCalls == 2
NoRun == [pc |-> "idle", stream |-> "none", cur |-> "none", iter |-> <<>>]
NoEvents ==
  [listeners |-> [st \in Streams |-> <<>>], offs |-> {}, run |-> NoRun,
   got |-> [l \in Listeners |-> 0], sub0 |-> {}, touched |-> {}]

\* the listener code running now belongs to an emit of stream st
During(st) == evt.run.pc = "calling" /\ evt.run.stream = st

\* EventType.on(listener): #listeners.add(listener); returns the handle
\* () => this.off(listener).  An emit in progress visits the new entry.
on(st, l) ==
  /\ During(st) => evt.got[l] < MaxCalls
  /\ evt' = [evt EXCEPT
       !.listeners[st] = IF l \in Range(@) THEN @ ELSE Append(@, l),
       !.offs = @ \cup {<<st, l>>},
       !.run.iter = IF During(st) /\ l \notin Range(evt.listeners[st])
                    THEN Append(@, l) ELSE @,
       !.touched = IF During(st) THEN @ \cup {l} ELSE @]
  /\ UNCHANGED <<receiver, made, out, settled, store,
                 observerVars, scheduleVars,
                 tickVars,
                 sysVars>>

\* a detach handle is called: EventType.off(listener),
\* #listeners.delete(listener).  An emit in progress skips a deleted entry.
off(st, l) ==
  /\ <<st, l>> \in evt.offs
  /\ evt' = [evt EXCEPT
       !.listeners[st] = Without(@, l),
       !.run.iter = IF During(st) THEN Without(@, l) ELSE @,
       !.touched = IF During(st) THEN @ \cup {l} ELSE @]
  /\ UNCHANGED <<receiver, made, out, settled, store,
                 observerVars, scheduleVars,
                 tickVars,
                 sysVars>>

\* EventType.offAll(): #listeners.clear()
offAll(st) ==
  /\ evt.listeners[st] # <<>>
  /\ evt' = [evt EXCEPT
       !.listeners[st] = <<>>,
       !.run.iter = IF During(st) THEN <<>> ELSE @,
       !.touched = IF During(st) THEN @ \cup Range(evt.listeners[st])
                   ELSE @]
  /\ UNCHANGED <<receiver, made, out, settled, store,
                 observerVars, scheduleVars,
                 tickVars,
                 sysVars>>

\* the for-of of emit goes on with the entries `it`: the next listener is
\* called, or emit returns
emitLoop(st, it, got) ==
  IF it = <<>>
  THEN [pc |-> "done", stream |-> st, cur |-> "none", iter |-> <<>>]
  ELSE [pc |-> "calling", stream |-> st, cur |-> Head(it), iter |-> Tail(it)]

\* EventType.emit(...params), called by the main program, up to its first
\* listener call
emit(st) ==
  /\ evt.run.pc # "calling"
  /\ evt' = [evt EXCEPT
       !.run = emitLoop(st, evt.listeners[st], evt.got),
       !.got = [l \in Listeners |->
                  IF evt.listeners[st] # <<>> /\ l = Head(evt.listeners[st])
                  THEN 1 ELSE 0],
       !.sub0 = Range(evt.listeners[st]),
       !.touched = {}]
  /\ UNCHANGED <<receiver, made, out, settled, store,
                 observerVars, scheduleVars,
                 tickVars,
                 sysVars>>

\* the listener that runs returns
emitNext ==
  /\ evt.run.pc = "calling"
  /\ evt' = [evt EXCEPT
       !.run = emitLoop(evt.run.stream, evt.run.iter, evt.got),
       !.got = IF evt.run.iter = <<>> THEN @
               ELSE [@ EXCEPT ![Head(evt.run.iter)] = @ + 1]]
  /\ UNCHANGED <<receiver, made, out, settled, store,
                 observerVars, scheduleVars,
                 tickVars,
                 sysVars>>

\* ------------------------------------------------------------ Observer
\* the frame of one update() call, stopped inside a listener of event `pc`
\*   cur:   the entity of that event (0 for preUpdate and postUpdate)
\*   keys:  keys the for-in of Query.query has still to visit
\*   iter:  entries the Set iterator of finishUpdate has still to visit
\* and the history of this cycle:
\*   regStart: the registry when the cycle began
\*   ev:    per entity, the events this call has emitted for it, in order
\*   missed: the entities its scan passed over that then had a health above 0
\*   sound: every entity its scan yielded then had a health above 0
Frame(p) ==
  [pc |-> "preUpdate", params |-> p, cur |-> 0, keys |-> <<>>, iter |-> <<>>,
   regStart |-> Range(registry),
   ev |-> [e \in Ents |-> <<>>], missed |-> {}, sound |-> TRUE,
   changed |-> {}]

\* EventType.emit of an entity event, as the history of frame f records it
Emit(f, name, e, p) ==
  [f EXCEPT !.pc = name, !.cur = e,
            !.ev[e] = Append(@, [name |-> name, params |-> p])]

Names(f, e) == [i \in DOMAIN f.ev[e] |-> f.ev[e][i].name]
Fired(f, name, e) == \E i \in DOMAIN f.ev[e] : f.ev[e][i].name = name
Updated(f) == {e \in Ents : Fired(f, "updated", e)}

\* the keys the generator passed over when it ran from `keys` to `rest`
\* although they then had a health above 0, added to f.missed; and whether
\* the entity it yielded then had one, in f.sound
Visited(f, keys, rest) ==
  LET n == Len(keys) - Len(rest)
      over == {keys[i] : i \in 1..n}
  IN [f EXCEPT
        !.missed = @ \cup {e \in over : components[e]["health"] = <<1>>},
        !.sound = @ /\ (rest = <<>> \/ components[Head(rest)]["health"] = <<1>>)]

\* the frames below the top are stopped in finishUpdate; their Set iterators
\* are live: an entry added to the Set is visited, a deleted one is not
IterAdd(f, e) ==
  IF f.pc = "unmatched" THEN [f EXCEPT !.iter = Append(@, e)] ELSE f
IterDel(f, e) == [f EXCEPT !.iter = Without(@, e)]

\* the stack without the update() call on top of it: what a throw out of
\* that call leaves
Unwound == SubSeq(stack, 1, Len(stack) - 1)
\* the calls below the top after #registry.add(e), after #registry.delete(e)
OuterAdd(e) == [i \in DOMAIN Unwound |-> IterAdd(stack[i], e)]
OuterDel(e) == [i \in DOMAIN Unwound |-> IterDel(stack[i], e)]
\* the stack with the top call moved on to newTop
Pushed(newTop, below) == Append(below, newTop)

\* mutant of finishLoop: `unmatched` is emitted but the registry keeps the entity
finishLoopKeepsEntry(f, it, m) ==
  LET rest == nextUnmatched(it, m) IN
  IF rest # <<>>
  THEN LET e == Head(rest) IN
       /\ registry' = registry
       /\ live' = live \ {e}
       /\ stack' = Pushed([Emit(f, "unmatched", e, f.params)
                             EXCEPT !.iter = Tail(rest)],
                          Unwound)
  ELSE /\ stack' = Pushed([f EXCEPT !.pc = "postUpdate", !.cur = 0,
                                    !.iter = <<>>],
                          Unwound)
       /\ UNCHANGED <<registry, live>>

\* Observer.finishUpdate from its loop on: delete and emit `unmatched` for the
\* next registered entity missing from #matched, or emit `postUpdate`
finishLoop(f, it, m) ==
  LET rest == nextUnmatched(it, m) IN
  IF rest # <<>>
  THEN LET e == Head(rest) IN
       /\ registry' = Without(registry, e)
       /\ live' = live \ {e}
       /\ stack' = Pushed([Emit(f, "unmatched", e, f.params)
                             EXCEPT !.iter = Tail(rest)],
                          OuterDel(e))
  ELSE /\ stack' = Pushed([f EXCEPT !.pc = "postUpdate", !.cur = 0,
                                    !.iter = <<>>],
                          Unwound)
       /\ UNCHANGED <<registry, live>>

\* Observer.finishUpdate: leave the updating state, then run the loop (the
\* params of the call were read before #updating was reset: f.params)
finishUpdate(f, m) ==
  IF ~updating.status
  THEN \* throw new Error('Observer is not updating')
       /\ stack' = Unwound
       /\ UNCHANGED <<registry, live, updating, lastSeen>>
  ELSE /\ updating' = [status |-> FALSE, params |-> "none"]
       /\ lastSeen' = Updated(f)
       /\ finishLoop(f, registry, m)

\* mutant of updateEntity: `matched` is emitted whether or not the entity is
\* registered
updateEntityAlwaysMatched(f, e) ==
  IF ~updating.status
  THEN /\ stack' = Unwound
       /\ UNCHANGED <<registry, live>>
  ELSE /\ registry' = IF e \in Range(registry) THEN registry
                      ELSE Append(registry, e)
       /\ live' = live \cup {e}
       /\ stack' = Pushed(Emit(f, "matched", e, updating.params),
                          IF e \in Range(registry) THEN Unwound
                          ELSE OuterAdd(e))

\* Observer.updateEntity up to its first emit
updateEntity(f, e) ==
  IF ~updating.status
  THEN \* throw new Error('Observer is not updating')
       /\ stack' = Unwound
       /\ UNCHANGED <<registry, live>>
  ELSE IF e \notin Range(registry)
  THEN /\ registry' = Append(registry, e)
       /\ live' = live \cup {e}
       /\ stack' = Pushed(Emit(f, "matched", e, updating.params),
                          OuterAdd(e))
  ELSE /\ stack' = Pushed(Emit(f, "updated", e, updating.params), Unwound)
       /\ UNCHANGED <<registry, live>>

\* Observer.update, the for-of over query.query(ecs): take the next entity
\* the generator yields and update it, or finish when it is done
scanLoop(f, keys, m) ==
  LET rest == query(keys, components)
      g == Visited(f, keys, rest)
  IN IF rest # <<>>
     THEN /\ updateEntity([g EXCEPT !.keys = Tail(rest)], Head(rest))
          /\ UNCHANGED <<updating, lastSeen>>
     ELSE finishUpdate([g EXCEPT !.keys = <<>>], m)

\* Observer.update(ecs, params) up to the first emit: startUpdate.  Called by
\* the main program (no call in progress) or by a listener of the call on top
\* of the stack.
updateStep(p) ==
  /\ Len(stack) < MaxDepth
  /\ IF updating.status
     THEN \* throw new Error('Observer is already updating')
          UNCHANGED <<updating, matched, stack>>
     ELSE /\ updating' = [status |-> TRUE, params |-> p]
          /\ matched' = {}
          /\ stack' = Append(stack, Frame(p))
  /\ UNCHANGED <<components, entities, registry, live, lastSeen>>

update(p) ==
  /\ updateStep(p)
  /\ UNCHANGED <<scheduleVars, tickVars, sysVars, libVars>>

\* the preUpdate listeners return: the for-of of update starts the generator,
\* whose for-in takes the keys of ecs.entities as they are now
returnPreUpdateStep ==
  /\ stack # <<>> /\ Top.pc = "preUpdate"
  /\ scanLoop(Top, entities, matched)
  /\ UNCHANGED <<components, entities, matched>>

returnPreUpdate ==
  /\ returnPreUpdateStep
  /\ UNCHANGED <<scheduleVars, tickVars, sysVars, libVars>>

\* the matched listeners return: updateEntity emits `updated`
returnMatchedStep ==
  /\ stack # <<>> /\ Top.pc = "matched"
  /\ stack' = Pushed(Emit(Top, "updated", Top.cur, updating.params), Unwound)
  /\ UNCHANGED <<components, entities, registry, matched, updating,
                 live, lastSeen>>

\* mutant of returnMatched: updateEntity returns after `matched` without
\* emitting `updated`
returnMatchedSkipsUpdated ==
  /\ stack # <<>> /\ Top.pc = "matched"
  /\ matched' = matched \cup {Top.cur}
  /\ scanLoop(Top, Top.keys, matched')
  /\ UNCHANGED <<components, entities>>
  /\ UNCHANGED <<scheduleVars, tickVars, sysVars, libVars>>

returnMatched ==
  /\ returnMatchedStep
  /\ UNCHANGED <<scheduleVars, tickVars, sysVars, libVars>>

\* the updated listeners return: updateEntity adds the entity to #matched and
\* the for-of goes on
returnUpdatedStep ==
  /\ stack # <<>> /\ Top.pc = "updated"
  /\ matched' = matched \cup {Top.cur}
  /\ scanLoop(Top, Top.keys, matched')
  /\ UNCHANGED <<components, entities>>

returnUpdated ==
  /\ returnUpdatedStep
  /\ UNCHANGED <<scheduleVars, tickVars, sysVars, libVars>>

\* the unmatched listeners return: the loop of finishUpdate goes on
returnUnmatchedStep ==
  /\ stack # <<>> /\ Top.pc = "unmatched"
  /\ finishLoop(Top, Top.iter, matched)
  /\ UNCHANGED <<components, entities, matched, updating, lastSeen>>

returnUnmatched ==
  /\ returnUnmatchedStep
  /\ UNCHANGED <<scheduleVars, tickVars, sysVars, libVars>>

\* the postUpdate listeners return: update() returns
returnPostUpdateStep ==
  /\ stack # <<>> /\ Top.pc = "postUpdate"
  /\ stack' = Unwound
  /\ UNCHANGED <<components, entities, registry, matched, updating,
                 live, lastSeen>>

returnPostUpdate ==
  /\ returnPostUpdateStep
  /\ UNCHANGED <<scheduleVars, tickVars, sysVars, libVars>>

\* a listener of the event the call on top is emitting throws: the exception
\* leaves emit, then startUpdate, updateEntity or finishUpdate, then update,
\* none of which has a catch or a finally, and reaches the caller of update
\* (the listeners of calls nested deeper than MaxThrowDepth do not throw)
listenerThrows ==
  /\ stack # <<>> /\ Len(stack) <= MaxThrowDepth
  /\ stack' = Unwound
  /\ UNCHANGED <<components, entities, registry, matched, updating,
                 live, lastSeen>>
  /\ UNCHANGED <<scheduleVars, tickVars, sysVars, libVars>>

\* ----------------------------------------------------------------- ECS
\* in the frames, a for-in in progress skips a key deleted before its visit
KeyDel(f, e) == [f EXCEPT !.keys = Without(@, e)]

\* ECS.add(entity): a new key, last in key order (a for-in in progress does
\* not visit a key added after it began)
add(e) ==
  /\ e \notin Range(entities)
  /\ entities' = Append(entities, e)
  /\ UNCHANGED <<components, registry, matched, updating, stack,
                 live, lastSeen>>
  /\ UNCHANGED <<scheduleVars, tickVars, sysVars, libVars>>

\* ECS.remove(id)
remove(e) ==
  /\ e \in Range(entities)
  /\ entities' = Without(entities, e)
  /\ stack' = [i \in 1..Len(stack) |-> KeyDel(stack[i], e)]
  /\ UNCHANGED <<components, registry, matched, updating,
                 live, lastSeen>>
  /\ UNCHANGED <<scheduleVars, tickVars, sysVars, libVars>>

\* an in-place edit of an entity: entity[c] = v, or delete entity[c]
setComponent(e, c, v) ==
  /\ components[e][c] # v
  /\ components' = [components EXCEPT ![e][c] = v]
  /\ UNCHANGED <<entities, registry, matched, updating, stack,
                 live, lastSeen>>
  /\ UNCHANGED <<scheduleVars, tickVars, sysVars, libVars>>

\* the stack after an edit of entity e; history: when an `updated` listener
\* of the call on top edits an entity its scan has yet to reach, the frame of
\* that call notes the entity in f.changed
noted(e) ==
  IF stack # <<>> /\ Top.pc = "updated" /\ e \in Range(Top.keys)
  THEN [stack EXCEPT ![Len(stack)].changed = @ \cup {e}]
  ELSE stack

\* entity.health = v, by the main program or by a listener
edit(e, v) ==
  /\ components[e]["health"] # v
  /\ components' = [components EXCEPT ![e]["health"] = v]
  /\ stack' = noted(e)
  /\ UNCHANGED <<entities, registry, matched, updating, live, lastSeen>>
  /\ UNCHANGED <<scheduleVars, tickVars, sysVars, libVars>>

\* ------------------------------------------------- ECS ids and aliases
NumIds == 2
MaxMade == 2
\* the ids uuid() can return, the alias names the program uses
Ids == 1..NumIds
Aliases == {"a", "b"}
\* what a factory or the program puts in an entity
Bodies == [Components -> OptVal]

NoCall == [op |-> "none", id |-> 0, alias |-> "none", ret |-> 0,
           made |-> FALSE, error |-> ""]
\* new ECS(components): entities = {}, aliases = {}, #entityAliases = Map()
\* (an entity slot is <<>> or <<body>>, an alias slot is 0 or an id); history:
\* the last call, and the number of entityFactory calls
NoStore ==
  [entities |-> [i \in Ids |-> <<>>],
   aliases |-> [a \in Aliases |-> 0],
   entityAliases |-> [i \in Ids |-> {}],
   last |-> NoCall,
   factories |-> 0]

\* ECS.get(idOrAlias) of an alias name, by the id of the object it returns
\* (0: undefined); an alias name is no id, so this.entities[name] is undefined
get(st, x) ==
  IF st.aliases[x] # 0
  THEN IF st.entities[st.aliases[x]] # <<>> THEN st.aliases[x] ELSE 0
  ELSE 0

\* ECS.add(entity) when uuid() returns id: the store after it
afterAdd(st, id, b) == [st EXCEPT !.entities[id] = <<b>>]

\* ECS.remove, its loop: delete this.aliases[alias] for every alias in
\* #entityAliases.get(id)
unaliased(st, id) ==
  [a \in Aliases |-> IF a \in st.entityAliases[id] THEN 0 ELSE st.aliases[a]]

\* ECS.remove(id): the store after it
afterRemove(st, id) ==
  [st EXCEPT !.entities[id] = <<>>,
             !.aliases = unaliased(st, id),
             !.entityAliases[id] = {}]

\* ECS.alias(alias, id) past its guard: the store after it
afterAlias(st, a, id) ==
  [st EXCEPT !.entityAliases[id] = @ \cup {a},
             !.aliases[a] = id]

\* the program calls ecs.add(entity); uuid() returns an id not in entities
storeAdd(id, b) ==
  /\ store.entities[id] = <<>>
  /\ store' = [afterAdd(store, id, b) EXCEPT
                 !.last = [NoCall EXCEPT !.op = "add", !.id = id, !.ret = id]]
  /\ UNCHANGED <<receiver, made, out, evt, settled, observerVars,
                 scheduleVars, tickVars, sysVars>>

\* the program calls ecs.remove(id)
storeRemove(id) ==
  /\ store' = [afterRemove(store, id) EXCEPT
                 !.last = [NoCall EXCEPT !.op = "remove", !.id = id]]
  /\ UNCHANGED <<receiver, made, out, evt, settled, observerVars,
                 scheduleVars, tickVars, sysVars>>

\* the program calls ecs.alias(alias, id)
alias(a, id) ==
  /\ store' =
       IF store.entities[id] = <<>>
       THEN \* throw new Error(`Entity with id ${id} does not exist`)
            [store EXCEPT
               !.last = [NoCall EXCEPT !.op = "alias", !.id = id, !.alias = a,
                                       !.error = "Entity does not exist"]]
       ELSE [afterAlias(store, a, id) EXCEPT
               !.last = [NoCall EXCEPT !.op = "alias", !.id = id, !.alias = a]]
  /\ UNCHANGED <<receiver, made, out, evt, settled, observerVars,
                 scheduleVars, tickVars, sysVars>>

\* the program edits a stored entity in place: entity.health = v
storeEdit(id, v) ==
  /\ store.entities[id] # <<>>
  /\ store.entities[id][1]["health"] # v
  /\ store' = [store EXCEPT !.entities[id][1]["health"] = v,
                            !.last = [NoCall EXCEPT !.op = "edit", !.id = id]]
  /\ UNCHANGED <<receiver, made, out, evt, settled, observerVars,
                 scheduleVars, tickVars, sysVars>>

\* mutant of existing: query.match is not asked
existingUnmatched(st, a) == get(st, a)

\* the singleton getter, its test: `existing && query.match(existing)` for
\* existing = this.get(alias), by the id of the entity returned (0: none)
existing(st, a) ==
  LET id == get(st, a) IN
  IF id # 0 /\ match(st.entities[id][1]) THEN id ELSE 0

\* a call of a getter that ecs.singleton(alias, alive, entityFactory)
\* returned, with an entityFactory that returns a new entity of body b, when
\* uuid() returns id
getter(a, b, id) ==
  /\ IF existing(store, a) # 0
     THEN store' = [store EXCEPT
                      !.last = [NoCall EXCEPT !.op = "getter", !.alias = a,
                                              !.ret = existing(store, a)]]
     ELSE /\ store.entities[id] = <<>>
          /\ store.factories < MaxMade
          /\ store' = [afterAlias(afterAdd(store, id, b), a, id) EXCEPT
                         !.factories = @ + 1,
                         !.last = [NoCall EXCEPT !.op = "getter", !.alias = a,
                                                 !.id = id, !.ret = id,
                                                 !.made = TRUE]]
  /\ UNCHANGED <<receiver, made, out, evt, settled, observerVars,
                 scheduleVars, tickVars, sysVars>>

\* ------------------------------------------------------------ Schedule
Units == {"A", "B", "C"}
MaxDeps == 2

\* the arrays of at most n units
Arrays(n) == UNION {[1..k -> Units] : k \in 0..n}
\* the arrays of distinct units, at least one
Distinct == {a \in Arrays(Cardinality(Units)) :
               a # <<>> /\ \A i, j \in DOMAIN a : a[i] = a[j] => i = j}

\* makeDependersMap(systems): for every unit, the array of its dependers,
\* pushed in the order of `systems` and, within a system, of its deps
RECURSIVE dependersOf(_, _, _)
dependersOf(dep, sys, ds) ==
  IF sys = <<>> THEN <<>>
  ELSE SelectSeq([i \in DOMAIN ds[Head(sys)] |->
                    IF ds[Head(sys)][i] = dep THEN Head(sys) ELSE ""],
                 LAMBDA x : x # "")
       \o dependersOf(dep, Tail(sys), ds)

\* mutant of makeDependersMap: every depender is filed under the first dep of
\* its system
makeDependersMapFirstDep(sys, ds) ==
  [d \in Units |->
     dependersOf(d, sys, [u \in Units |-> [i \in DOMAIN ds[u] |-> ds[u][1]]])]

makeDependersMap(sys, ds) == [d \in Units |-> dependersOf(d, sys, ds)]

\* mutant of initialDeps: the first system is not entered in the Map
initialDepsSkipsFirst(sys, ds) ==
  [i \in 1..(Len(sys) - 1) |->
     [system |-> sys[i + 1], count |-> Len(ds[sys[i + 1]])]]

\* mutant of initialDeps: only the deps that are scheduled are counted
initialDepsScheduledOnly(sys, ds) ==
  [i \in DOMAIN sys |->
     [system |-> sys[i],
      count |-> Len(SelectSeq(ds[sys[i]], LAMBDA d : d \in Range(sys)))]]

\* remainingDeps.set(system, system.deps.length) for every system, in order
initialDeps(sys, ds) ==
  [i \in DOMAIN sys |-> [system |-> sys[i], count |-> Len(ds[sys[i]])]]

\* mutant of ready: the first loop stops at the first system it takes
readyFirstOnly(rem) ==
  LET r == {i \in DOMAIN rem : ~(rem[i].count > 0)}
  IN {i \in r : \A j \in r : i <= j}

\* the first loop of an iteration: the entries of the Map it does not skip
\* with `if (count > 0) continue`
ready(rem) == {i \in DOMAIN rem : ~(rem[i].count > 0)}

\* the entries of the Map at the positions `at`, in Map order
Entries(rem, at) ==
  LET tagged == SelectSeq([i \in DOMAIN rem |-> <<i, rem[i]>>],
                          LAMBDA t : t[1] \in at)
  IN [i \in DOMAIN tagged |-> tagged[i][2]]

\* step.add(system) and remainingDeps.delete(system) for every ready entry
stepOf(rem) ==
  LET taken == Entries(rem, ready(rem))
  IN [i \in DOMAIN taken |-> taken[i].system]
\* mutant of leftOf: the entries taken are not deleted from the Map
leftOfKeepsAll(rem) == rem

leftOf(rem) == Entries(rem, DOMAIN rem \ ready(rem))

\* the second loop: for every removed system, every depender of it loses one
Hits(removed, u) ==
  LET dm == makeDependersMap(systems, deps)
  IN Cardinality(UNION {{<<k, i>> : i \in {j \in DOMAIN dm[removed[k]] :
                                             dm[removed[k]][j] = u}} :
                        k \in DOMAIN removed})
\* mutant of decremented: every system left in the Map loses one
decrementedAll(left, removed) ==
  [i \in DOMAIN left |-> [left[i] EXCEPT !.count = @ - 1]]

decremented(left, removed) ==
  [i \in DOMAIN left |->
     [left[i] EXCEPT !.count = @ - Hits(removed, left[i].system)]]
\* remainingDeps.get(depender) === undefined for some depender
dependerNotFound(left, removed) ==
  LET dm == makeDependersMap(systems, deps)
  IN \E k \in DOMAIN removed : \E i \in DOMAIN dm[removed[k]] :
       \A j \in DOMAIN left : left[j].system # dm[removed[k]][i]

\* new Schedule(systems, systemHandles) up to its while loop
construct ==
  /\ schedule = [pc |-> "new", error |-> ""]
  /\ remainingDeps' = initialDeps(systems, deps)
  /\ schedule' = [pc |-> IF remainingDeps' = <<>> THEN "built" ELSE "loop",
                  error |-> ""]
  /\ UNCHANGED <<systems, deps, steps, observerVars, tickVars, sysVars,
                 libVars>>

\* one iteration of `while (remainingDeps.size > 0)`
iterate ==
  /\ schedule.pc = "loop"
  /\ LET step == stepOf(remainingDeps)
         left == leftOf(remainingDeps)
     IN /\ steps' = Append(steps, step)
        /\ IF dependerNotFound(left, step)
           THEN /\ schedule' = [pc |-> "failed", error |-> "Depender not found"]
                /\ remainingDeps' = left
           ELSE /\ remainingDeps' = decremented(left, step)
                /\ schedule' =
                     IF step = <<>>
                     THEN [pc |-> "failed", error |-> "Invalid dependency graph"]
                     ELSE IF left = <<>>
                     THEN [pc |-> "built", error |-> ""]
                     ELSE [pc |-> "loop", error |-> ""]
  /\ UNCHANGED <<systems, deps, observerVars, tickVars, sysVars, libVars>>

\* Array.join(separator) of an array of strings
RECURSIVE join(_, _)
join(strs, sep) ==
  IF strs = <<>> THEN ""
  ELSE IF Len(strs) = 1 THEN strs[1]
  ELSE strs[1] \o sep \o join(Tail(strs), sep)

\* system.name: a unit is named by its name
nameOf(u) == u

\* mutant of stepLine: the steps are numbered from 1
stepLineFromOne(step, index) ==
  "Step " \o ToString(index + 1) \o ": "
    \o join([i \in DOMAIN step |-> nameOf(step[i])], ", ")

\* the callback of steps.map in formatSchedule: `Step ${index}: ${systems}`
\* with systems = Array.from(step).map((s) => s.name).join(', ')
stepLine(step, index) ==
  "Step " \o ToString(index) \o ": "
    \o join([i \in DOMAIN step |-> nameOf(step[i])], ", ")

\* formatSchedule(schedule); array indices count from 0
formatSchedule(st) ==
  join([i \in DOMAIN st |-> stepLine(st[i], i - 1)], "\n")

\* formatSchedule is called on a Schedule the constructor has returned
callFormat ==
  /\ schedule.pc = "built"
  /\ out' = [op |-> "formatSchedule", self |-> Query0, with |-> steps,
             value |-> formatSchedule(steps), error |-> ""]
  /\ UNCHANGED <<receiver, made, evt, settled, store,
                 observerVars, scheduleVars,
                 tickVars,
                 sysVars>>

\* ---------------------------------------------------- attached units
\* a unit's shared resource: the calls of shared.create and shared.destroy
\* made for it so far, and whether the resource exists
NoShared == [state |-> "none", creates |-> 0, destroys |-> 0]

\* Schedule.update is not running
NoTick == [pc |-> "idle"]

\* mutant of from: attachSystem does not await shared.create
fromWithoutAwait ==
  /\ schedule = [pc |-> "from", error |-> ""]
  /\ handles' = [u \in Units |->
                   IF u \in Range(systems) THEN "attached" ELSE "none"]
  /\ shared' = [u \in Units |->
                  IF u \in Range(systems)
                  THEN [state |-> "creating", creates |-> 1, destroys |-> 0]
                  ELSE NoShared]
  /\ schedule' = [pc |-> "attaching", error |-> ""]
  /\ UNCHANGED <<systems, deps, remainingDeps, steps, observerVars,
                 unitRegistry, tick, stops>>
  /\ UNCHANGED <<sysVars, libVars>>

\* Schedule.from up to its await: systems.map starts attachSystem for every
\* system in turn, and every call runs to its `await sharedConfig.create(...)`
from ==
  /\ schedule = [pc |-> "from", error |-> ""]
  /\ handles' = [u \in Units |->
                   IF u \in Range(systems) THEN "pending" ELSE "none"]
  /\ shared' = [u \in Units |->
                  IF u \in Range(systems)
                  THEN [state |-> "creating", creates |-> 1, destroys |-> 0]
                  ELSE NoShared]
  /\ schedule' = [pc |-> "attaching", error |-> ""]
  /\ UNCHANGED <<systems, deps, remainingDeps, steps, observerVars,
                 unitRegistry, tick, stops>>
  /\ UNCHANGED <<sysVars, libVars>>

\* the shared.create of unit u settles after that of a unit that comes later
\* in `systems`
Overtakes(u) ==
  \E i, j \in DOMAIN systems :
    /\ systems[i] = u /\ i < j
    /\ handles[systems[j]] \in {"attached", "rejected"}

\* the promise of shared.create of unit u resolves: attachSystem goes on,
\* makes the observer and resolves with the handle
createResolves(u) ==
  /\ handles[u] = "pending"
  /\ shared' = [shared EXCEPT ![u].state = "created"]
  /\ handles' = [handles EXCEPT ![u] = "attached"]
  /\ unitRegistry' = [unitRegistry EXCEPT ![u] = {}]
  /\ settled' = (settled \/ Overtakes(u))
  /\ UNCHANGED <<scheduleVars, observerVars, tick, stops>>
  /\ UNCHANGED <<sysVars, receiver, made, out, evt, store>>

\* shared.create of unit u throws or rejects: attachSystem rejects
createRejects(u) ==
  /\ handles[u] = "pending"
  /\ shared' = [shared EXCEPT ![u].state = "failed"]
  /\ handles' = [handles EXCEPT ![u] = "rejected"]
  /\ settled' = (settled \/ Overtakes(u))
  /\ UNCHANGED <<scheduleVars, observerVars, unitRegistry, tick, stops>>
  /\ UNCHANGED <<sysVars, receiver, made, out, evt, store>>

\* mutant of fromResolves: the first attachSystem to resolve is enough
fromResolvesAtFirst ==
  /\ schedule.pc = "attaching"
  /\ \E u \in Range(systems) : handles[u] = "attached"
  /\ schedule' = [pc |-> "new", error |-> ""]
  /\ UNCHANGED <<systems, deps, remainingDeps, steps, observerVars, tickVars>>
  /\ UNCHANGED <<sysVars, libVars>>

\* Promise.all resolves when every attachSystem has: `new Schedule` is next
fromResolves ==
  /\ schedule.pc = "attaching"
  /\ \A u \in Range(systems) : handles[u] = "attached"
  /\ schedule' = [pc |-> "new", error |-> ""]
  /\ UNCHANGED <<systems, deps, remainingDeps, steps, observerVars, tickVars>>
  /\ UNCHANGED <<sysVars, libVars>>

\* Promise.all rejects when one attachSystem has: Schedule.from rejects
fromRejects ==
  /\ schedule.pc = "attaching"
  /\ \E u \in Range(systems) : handles[u] = "rejected"
  /\ schedule' = [pc |-> "rejected", error |-> "shared.create failed"]
  /\ UNCHANGED <<systems, deps, remainingDeps, steps, observerVars, tickVars>>
  /\ UNCHANGED <<sysVars, libVars>>

\* mutant of visitOrder: the handles are visited in the order of the Map
visitOrderOfHandles(st) == systems

\* Schedule.update: `for (const step of this.steps) for (const system of
\* step)`, the units in the order it calls their handle.update
RECURSIVE visitOrder(_)
visitOrder(st) == IF st = <<>> THEN <<>> ELSE Head(st) \o visitOrder(Tail(st))

\* mutant of seen: the unit reads the entity as it was when the tick began
seenStale(e) == tick.before[e]

\* `const entity = ecs.entities[id]`: the entity object a unit's query and
\* callbacks read is the live one
seen(e) == components[e]

\* Schedule.update(params) up to its first handle.update; the history of the
\* tick starts: the entities as they are before it, every unit's status
\* (wait, run, done), what each unit decided for each entity (updated,
\* skipped), and the unit and value of the latest write to each entity
scheduleUpdate ==
  /\ schedule.pc = "built" /\ tick.pc \in {"idle", "done"}
  /\ tick' = [pc |-> "call", at |-> 1, keys |-> <<>>, matchedNow |-> {},
              before |-> components,
              status |-> [u \in Units |-> "wait"],
              decision |-> [u \in Units |-> [e \in Ents |-> "none"]],
              lastWrite |-> [e \in Ents |-> <<>>]]
  /\ UNCHANGED <<scheduleVars, observerVars, handles, shared, unitRegistry,
                 stops>>
  /\ UNCHANGED <<sysVars, libVars>>

\* the unit Schedule.update is at
Unit == visitOrder(steps)[tick.at]

\* handle.update(params): observer.update starts, preUpdate runs onPreUpdate,
\* and the for-of starts the generator of Query.query
handleUpdate ==
  /\ tick.pc = "call"
  /\ handles[Unit] = "attached"
  /\ tick' = [tick EXCEPT !.pc = "scan", !.keys = entities, !.matchedNow = {},
                          !.status[Unit] = "run"]
  /\ UNCHANGED <<scheduleVars, observerVars, handles, shared, unitRegistry,
                 stops>>
  /\ UNCHANGED <<sysVars, libVars>>

\* the entities as the unit reads them
Seen == [e \in Ents |-> seen(e)]

\* the decisions of the generator when it runs from tick.keys to `rest`
Decided(rest) ==
  LET n == Len(tick.keys) - Len(rest)
  IN [e \in Ents |->
        IF \E i \in 1..n : tick.keys[i] = e THEN "skipped"
        ELSE IF rest # <<>> /\ Head(rest) = e THEN "updated"
        ELSE tick.decision[Unit][e]]

\* the generator yields an entity: updateEntity registers it if need be and
\* the updated listener runs onUpdated, which may write health v to entity w
unitEntity(w, v) ==
  /\ tick.pc = "scan"
  /\ LET rest == query(tick.keys, Seen) IN
     /\ rest # <<>>
     /\ unitRegistry' = [unitRegistry EXCEPT ![Unit] = @ \cup {Head(rest)}]
     /\ components' = [components EXCEPT ![w]["health"] = v]
     /\ tick' = [tick EXCEPT
                   !.keys = Tail(rest),
                   !.matchedNow = @ \cup {Head(rest)},
                   !.decision[Unit] = Decided(rest),
                   !.lastWrite[w] =
                      IF v = components[w]["health"] THEN @
                      ELSE <<[unit |-> Unit, value |-> v]>>]
  /\ UNCHANGED <<scheduleVars, entities, registry, matched, updating, stack,
                 live, lastSeen, handles, shared, stops>>
  /\ UNCHANGED <<sysVars, libVars>>

\* the generator is done: finishUpdate unregisters what this scan did not
\* yield, postUpdate runs onPostUpdate, handle.update returns and
\* Schedule.update goes on to the next unit, or returns
unitFinish ==
  /\ tick.pc = "scan"
  /\ query(tick.keys, Seen) = <<>>
  /\ unitRegistry' = [unitRegistry EXCEPT ![Unit] = @ \cap tick.matchedNow]
  /\ tick' = [tick EXCEPT
                !.pc = IF tick.at < Len(visitOrder(steps)) THEN "call"
                       ELSE "done",
                !.at = IF tick.at < Len(visitOrder(steps)) THEN @ + 1 ELSE @,
                !.keys = <<>>,
                !.decision[Unit] = Decided(<<>>),
                !.status[Unit] = "done"]
  /\ UNCHANGED <<scheduleVars, observerVars, handles, shared, stops>>
  /\ UNCHANGED <<sysVars, libVars>>

\* mutant of stopOrder: only the handles of the first step are stopped
stopOrderFirstStep == steps[1]

\* Schedule.stop: Array.from(this.#systemHandles.values()), the handles in
\* the order of the Map, which is the order of `systems`
stopOrder == systems

\* Schedule.stop() up to its first handle.stop()
scheduleStop ==
  /\ schedule.pc = "built" /\ tick.pc \in {"idle", "done"}
  /\ schedule' = [pc |-> "stopping", error |-> ""]
  /\ tick' = [pc |-> "stop", at |-> 1]
  /\ UNCHANGED <<systems, deps, remainingDeps, steps, observerVars, handles,
                 shared, unitRegistry, stops>>
  /\ UNCHANGED <<sysVars, libVars>>

\* handle.stop() of the next handle, up to its await: observer.stop() and
\* the call of shared.destroy
handleStop ==
  /\ schedule.pc = "stopping"
  /\ IF tick.at <= Len(stopOrder)
     THEN LET u == stopOrder[tick.at] IN
          /\ stops' = [stops EXCEPT ![u] = @ + 1]
          /\ shared' = [shared EXCEPT ![u].state = "destroyed",
                                      ![u].destroys = @ + 1]
          /\ tick' = [tick EXCEPT !.at = @ + 1]
          /\ UNCHANGED schedule
     ELSE /\ schedule' = [pc |-> "stopped", error |-> ""]
          /\ tick' = NoTick
          /\ UNCHANGED <<stops, shared>>
  /\ UNCHANGED <<systems, deps, remainingDeps, steps, observerVars, handles,
                 unitRegistry>>
  /\ UNCHANGED <<sysVars, libVars>>

\* ------------------------------------------------------- attachSystem
\* One unit with a shared resource, a per-entity factory (each.create and
\* each.destroy) and the three callbacks, attached to the store.  handle.stop()
\* is called between updates.
\*   handle.balance: each.create calls minus each.destroy calls
\*   handle.log:     the calls stop() makes, in order: -1 for observer.stop(),
\*                   an entity for the destroy of its resource, 0 for the
\*                   destroy of the shared resource
\*   handle.pending: the destroy calls of stop() that returned a promise
\*                   which has not resolved yet
NoSystem ==
  [pc |-> "none", shared |-> "none", error |-> "", balance |-> 0, log |-> <<>>,
   pending |-> {}]
\* the resources made for an entity: the state of the latest one (none,
\* live, dead), whether one made before it is still not destroyed, whether
\* one was destroyed twice, and whether onUpdated has been given the latest
NoRes ==
  [latest |-> "none", older |-> FALSE, twice |-> FALSE, handed |-> FALSE]
NoArg ==
  [name |-> "none", entity |-> 0, params |-> "none", shared |-> "none",
   each |-> "none", fresh |-> FALSE, tog |-> 0]

\* a callback of the unit is called: with the shared resource, and where it
\* applies the entity, the update params and the per-entity resource r
\* (fresh: never given to onUpdated before)
Call(name, e, p, r, fresh) ==
  [name |-> name, entity |-> e, params |-> p, shared |-> handle.shared,
   each |-> r, fresh |-> fresh, tog |-> 1 - arg.tog]

\* Map.set and Map.delete on the keys of `each`, in insertion order
eachSet(m, e) == IF e \in Range(m) THEN m ELSE Append(m, e)
eachDelete(m, e) == Without(m, e)

\* eachConfig.create(...) makes a new resource for the entity
created(r) ==
  [latest |-> "live", older |-> r.older \/ r.latest = "live",
   twice |-> r.twice, handed |-> FALSE]
\* eachConfig.destroy(...) on the resource the map holds for the entity
destroyed(r) ==
  [r EXCEPT !.latest = "dead", !.twice = @ \/ r.latest = "dead"]

\* the last statement of the listener that returns: each.set(entity, ...)
\* in matched, each.delete(entity) in unmatched
returned(f, m) ==
  IF f.pc = "matched" THEN eachSet(m, f.cur)
  ELSE IF f.pc = "unmatched" THEN eachDelete(m, f.cur)
  ELSE m

\* a listener throws: the error leaves handle.update()
thrown(msg, m) ==
  /\ handle' = [handle EXCEPT !.pc = "crashed", !.error = msg]
  /\ each' = m
  /\ UNCHANGED <<res, arg>>

\* the listener of the event the observer has just emitted (frame f is stopped
\* in it), up to the callback it calls; m is the map as it is now
listeners(f, m) ==
  CASE f.pc = "preUpdate" ->
         /\ arg' = Call("onPreUpdate", 0, f.params, "none", FALSE)
         /\ each' = m
         /\ UNCHANGED <<handle, res>>
    [] f.pc = "matched" ->
         /\ res' = [res EXCEPT ![f.cur] = created(@)]
         /\ handle' = [handle EXCEPT !.balance = @ + 1]
         /\ arg' = Call("create", f.cur, "none", "none", FALSE)
         /\ each' = m
    [] f.pc = "updated" ->
         IF f.cur \notin Range(m)
         THEN thrown("Each resource not found for updated entity", m)
         ELSE /\ arg' = Call("onUpdated", f.cur, f.params, res[f.cur].latest,
                             ~res[f.cur].handed)
              /\ res' = [res EXCEPT ![f.cur].handed = TRUE]
              /\ each' = m
              /\ UNCHANGED handle
    [] f.pc = "unmatched" ->
         IF f.cur \notin Range(m)
         THEN thrown("Each resource not found for unmatched entity", m)
         ELSE /\ res' = [res EXCEPT ![f.cur] = destroyed(@)]
              /\ handle' = [handle EXCEPT !.balance = @ - 1]
              /\ arg' = Call("destroy", f.cur, "none", res[f.cur].latest, FALSE)
              /\ each' = m
    [] f.pc = "postUpdate" ->
         /\ arg' = Call("onPostUpdate", 0, f.params, "none", FALSE)
         /\ each' = m
         /\ UNCHANGED <<handle, res>>

\* the observer has emitted an event in this step: a new call is stopped in
\* its preUpdate listeners, or the call on top has moved on to another event
Emitted ==
  \/ Len(stack') > Len(stack)
  \/ /\ Len(stack') = Len(stack) /\ stack # <<>>
     /\ \/ stack'[Len(stack')].pc # Top.pc
        \/ stack'[Len(stack')].ev # Top.ev

\* the listener on top of the stack returns, the observer runs to its next
\* emit and the listener of that event starts
listenerReturns ==
  IF Emitted
  THEN listeners(stack'[Len(stack')], returned(Top, each))
  ELSE /\ each' = returned(Top, each)
       /\ UNCHANGED <<handle, res, arg>>

\* handle.update(updateParams): observer.update(ecs, updateParams), called by
\* the main program or by a callback of the unit
systemUpdate(p) ==
  /\ handle.pc = "attached"
  /\ updateStep(p)
  /\ IF Emitted THEN listeners(stack'[Len(stack')], each)
     ELSE UNCHANGED sysVars
  /\ UNCHANGED <<scheduleVars, tickVars, libVars>>

preUpdateReturns ==
  /\ handle.pc = "attached"
  /\ returnPreUpdateStep
  /\ listenerReturns
  /\ UNCHANGED <<scheduleVars, tickVars, libVars>>

matchedReturns ==
  /\ handle.pc = "attached"
  /\ returnMatchedStep
  /\ listenerReturns
  /\ UNCHANGED <<scheduleVars, tickVars, libVars>>

updatedReturns ==
  /\ handle.pc = "attached"
  /\ returnUpdatedStep
  /\ listenerReturns
  /\ UNCHANGED <<scheduleVars, tickVars, libVars>>

unmatchedReturns ==
  /\ handle.pc = "attached"
  /\ returnUnmatchedStep
  /\ listenerReturns
  /\ UNCHANGED <<scheduleVars, tickVars, libVars>>

postUpdateReturns ==
  /\ handle.pc = "attached"
  /\ returnPostUpdateStep
  /\ listenerReturns
  /\ UNCHANGED <<scheduleVars, tickVars, libVars>>

\* the loop of stop() over each.values(): destroy every resource of the map
RECURSIVE destroyAll(_, _)
destroyAll(m, r) ==
  IF m = <<>> THEN r
  ELSE destroyAll(Tail(m), [r EXCEPT ![Head(m)] = destroyed(@)])

\* the calls of stop(), in order
stopLog(m) == <<-1>> \o m \o <<0>>

\* handle.stop() up to its await: observer.stop(), the per-entity destroys,
\* then the call of destroyShared.  A destroy callback is the user's: it
\* has finished when it returns, or it returns a promise (those in `late`).
stop ==
  /\ handle.pc = "attached"
  /\ stack = <<>>
  /\ res' = destroyAll(each, res)
  /\ \E late \in SUBSET (Range(each) \cup {0}) :
       handle' = [handle EXCEPT !.pc = "stopping", !.shared = "destroyed",
                                !.balance = @ - Len(each),
                                !.log = stopLog(each),
                                !.pending = late]
  /\ UNCHANGED <<each, arg, observerVars, scheduleVars, tickVars, libVars>>

\* the promise a destroy callback returned resolves
destroyResolves(x) ==
  /\ x \in handle.pending
  /\ handle' = [handle EXCEPT !.pending = @ \ {x}]
  /\ UNCHANGED <<each, res, arg, observerVars, scheduleVars, tickVars,
                 libVars>>

\* what stop() awaits: `await destroyShared?.()`, the promise of the shared
\* destroy; the value of eachConfig.destroy?.(...) is dropped
awaited(h) == h.pending \cap {0}

\* the promise of stop() resolves
stopResolves ==
  /\ handle.pc = "stopping"
  /\ awaited(handle) = {}
  /\ handle' = [handle EXCEPT !.pc = "stopped"]
  /\ UNCHANGED <<each, res, arg, observerVars, scheduleVars, tickVars,
                 libVars>>

\* the calls of stop() made so far
stopCalls(h) == Cardinality({i \in DOMAIN h.log : h.log[i] = -1})

\* handle.stop() called again: the same code runs again: observer.stop(), a
\* destroy for every value the map still holds (stop() never clears it), then
\* the call of destroyShared
stopAgain ==
  /\ handle.pc \in {"stopping", "stopped"}
  /\ stack = <<>>
  /\ stopCalls(handle) < MaxStops
  /\ res' = destroyAll(each, res)
  /\ \E late \in SUBSET (Range(each) \cup {0}) :
       handle' = [handle EXCEPT !.pc = "stopping",
                                !.balance = @ - Len(each),
                                !.log = @ \o stopLog(each),
                                !.pending = @ \cup late]
  /\ UNCHANGED <<each, arg, observerVars, scheduleVars, tickVars, libVars>>

\* mutant of listening: stop() leaves the listeners on
listeningAfterStop(h) == h.pc \in {"attached", "stopping", "stopped"}

\* the listeners attachSystem installed are on the events of the observer:
\* from the attachment to observer.stop(), the first statement of stop(),
\* which calls offAll() on every event
listening(h) == h.pc = "attached"

\* handle.update(updateParams) called after stop()
lateUpdate(p) ==
  /\ handle.pc \in {"stopping", "stopped"}
  /\ updateStep(p)
  /\ IF Emitted /\ listening(handle)
     THEN listeners(stack'[Len(stack')], each)
     ELSE UNCHANGED sysVars
  /\ UNCHANGED <<scheduleVars, tickVars, libVars>>

\* after stop(), the emit the call on top is stopped in returns and the
\* observer runs to its next emit
lateReturn ==
  /\ handle.pc \in {"stopping", "stopped"}
  /\ \/ returnPreUpdateStep
     \/ returnMatchedStep
     \/ returnUpdatedStep
     \/ returnUnmatchedStep
     \/ returnPostUpdateStep
  /\ IF listening(handle) THEN listenerReturns ELSE UNCHANGED sysVars
  /\ UNCHANGED <<scheduleVars, tickVars, libVars>>

\* ------------------------------------------------------- specification
Init ==
  /\ components = [e \in Ents |-> [c \in Components |-> <<>>]]
  /\ entities = <<>>
  /\ registry = <<>>
  /\ matched = {}
  /\ updating = [status |-> FALSE, params |-> "none"]
  /\ stack = <<>>
  /\ live = {}
  /\ lastSeen = {}
  /\ systems = <<>>
  /\ deps = [u \in Units |-> <<>>]
  /\ schedule = [pc |-> "none", error |-> ""]
  /\ remainingDeps = <<>>
  /\ steps = <<>>
  /\ handles = [u \in Units |-> "none"]
  /\ shared = [u \in Units |-> NoShared]
  /\ unitRegistry = [u \in Units |-> {}]
  /\ tick = NoTick
  /\ stops = [u \in Units |-> 0]
  /\ handle = NoSystem
  /\ each = <<>>
  /\ res = [e \in Ents |-> NoRes]
  /\ arg = NoArg
  /\ receiver = Query0
  /\ made = Query0
  /\ out = NoOut
  /\ evt = NoEvents
  /\ settled = FALSE
  /\ store = NoStore

Next ==
  \/ \E p \in Params : update(p)
  \/ returnPreUpdate
  \/ returnMatched
  \/ returnUpdated
  \/ returnUnmatched
  \/ returnPostUpdate
  \/ \E e \in Pool : add(e)
  \/ \E e \in Pool : remove(e)
  \/ \E e \in Pool, c \in Components, v \in OptVal : setComponent(e, c, v)

Spec == Init /\ [][Next]_vars

\* the same observer with listeners that may throw
ThrowNext ==
  \/ Next
  \/ listenerThrows

ThrowSpec == Init /\ [][ThrowNext]_vars

\* the scheduler alone: every array of distinct units with every choice of
\* deps arrays is given to the constructor
ScheduleInit ==
  /\ components = [e \in Ents |-> [c \in Components |-> <<>>]]
  /\ entities = <<>>
  /\ registry = <<>>
  /\ matched = {}
  /\ updating = [status |-> FALSE, params |-> "none"]
  /\ stack = <<>>
  /\ live = {}
  /\ lastSeen = {}
  /\ systems \in Distinct
  /\ deps \in [Units -> Arrays(MaxDeps)]
  /\ schedule = [pc |-> "new", error |-> ""]
  /\ remainingDeps = <<>>
  /\ steps = <<>>
  /\ handles = [u \in Units |-> "none"]
  /\ shared = [u \in Units |-> NoShared]
  /\ unitRegistry = [u \in Units |-> {}]
  /\ tick = NoTick
  /\ stops = [u \in Units |-> 0]
  /\ handle = NoSystem
  /\ each = <<>>
  /\ res = [e \in Ents |-> NoRes]
  /\ arg = NoArg
  /\ receiver = Query0
  /\ made = Query0
  /\ out = NoOut
  /\ evt = NoEvents
  /\ settled = FALSE
  /\ store = NoStore

ScheduleNext == construct \/ iterate

\* the scheduler with its units attached to a store of two entities: the
\* units given are distinct, every one has a shared resource and observes
\* the query `alive`, and its onUpdated may write the health of its entity
TickInit ==
  /\ \E held \in [Pool -> [Components -> {<<0>>, <<1>>}]] :
       components = [e \in Ents |-> IF e \in Pool THEN held[e]
                                   ELSE [c \in Components |-> <<>>]]
  /\ entities = [i \in 1..NumEnts |-> i]
  /\ registry = <<>>
  /\ matched = {}
  /\ updating = [status |-> FALSE, params |-> "none"]
  /\ stack = <<>>
  /\ live = {}
  /\ lastSeen = {}
  /\ systems \in Distinct
  /\ deps \in [Units -> Arrays(1)]
  /\ \A u \in Units : u \notin Range(systems) => deps[u] = <<>>
  /\ schedule = [pc |-> "from", error |-> ""]
  /\ remainingDeps = <<>>
  /\ steps = <<>>
  /\ handles = [u \in Units |-> "none"]
  /\ shared = [u \in Units |-> NoShared]
  /\ unitRegistry = [u \in Units |-> {}]
  /\ tick = NoTick
  /\ stops = [u \in Units |-> 0]
  /\ handle = NoSystem
  /\ each = <<>>
  /\ res = [e \in Ents |-> NoRes]
  /\ arg = NoArg
  /\ receiver = Query0
  /\ made = Query0
  /\ out = NoOut
  /\ evt = NoEvents
  /\ settled = FALSE
  /\ store = NoStore

TickNext ==
  \/ from
  \/ \E u \in Units : createResolves(u)
  \/ \E u \in Units : createRejects(u)
  \/ fromResolves
  \/ fromRejects
  \/ construct
  \/ iterate
  \/ scheduleUpdate
  \/ handleUpdate
  \/ \E w \in Pool, v \in {<<0>>, <<1>>} : unitEntity(w, v)
  \/ unitFinish
  \/ scheduleStop
  \/ handleStop

TickSpec == TickInit /\ [][TickNext]_vars

\* one attached unit over the store: the unit was attached to an empty store
\* and its shared resource has been created
SystemInit ==
  /\ components = [e \in Ents |-> [c \in Components |-> <<>>]]
  /\ entities = <<>>
  /\ registry = <<>>
  /\ matched = {}
  /\ updating = [status |-> FALSE, params |-> "none"]
  /\ stack = <<>>
  /\ live = {}
  /\ lastSeen = {}
  /\ systems = <<>>
  /\ deps = [u \in Units |-> <<>>]
  /\ schedule = [pc |-> "none", error |-> ""]
  /\ remainingDeps = <<>>
  /\ steps = <<>>
  /\ handles = [u \in Units |-> "none"]
  /\ shared = [u \in Units |-> NoShared]
  /\ unitRegistry = [u \in Units |-> {}]
  /\ tick = NoTick
  /\ stops = [u \in Units |-> 0]
  /\ handle = [NoSystem EXCEPT !.pc = "attached", !.shared = "live"]
  /\ each = <<>>
  /\ res = [e \in Ents |-> NoRes]
  /\ arg = NoArg
  /\ receiver = Query0
  /\ made = Query0
  /\ out = NoOut
  /\ evt = NoEvents
  /\ settled = FALSE
  /\ store = NoStore

SystemNext ==
  \/ \E p \in Params : systemUpdate(p)
  \/ preUpdateReturns
  \/ matchedReturns
  \/ updatedReturns
  \/ unmatchedReturns
  \/ postUpdateReturns
  \/ \E e \in Pool : add(e)
  \/ \E e \in Pool : remove(e)
  \/ \E e \in Pool, c \in Components, v \in OptVal : setComponent(e, c, v)
  \/ stop
  \/ \E x \in Pool \cup {0} : destroyResolves(x)
  \/ stopResolves

SystemSpec == SystemInit /\ [][SystemNext]_vars

\* the attached unit, used on after stop(): the main program calls update()
\* and stop() again
LateNext ==
  \/ \E p \in {"p1"} : stack = <<>> /\ systemUpdate(p)
  \/ preUpdateReturns
  \/ matchedReturns
  \/ updatedReturns
  \/ unmatchedReturns
  \/ postUpdateReturns
  \/ \E e \in Pool : add(e)
  \/ \E e \in Pool, v \in {<<0>>, <<1>>} : setComponent(e, "health", v)
  \/ stop
  \/ stopAgain
  \/ \E x \in Pool \cup {0} : destroyResolves(x)
  \/ stopResolves
  \/ \E p \in {"p1"} : stack = <<>> /\ lateUpdate(p)
  \/ lateReturn

LateSpec == SystemInit /\ [][LateNext]_vars

\* the observer over a store of three entities, after an update that found
\* all three alive: listeners and the main program edit health and call
\* update
WideInit ==
  /\ components = [e \in Ents |-> [c \in Components |-> <<1>>]]
  /\ entities = [i \in 1..NumWide |-> i]
  /\ registry = [i \in 1..NumWide |-> i]
  /\ matched = 1..NumWide
  /\ updating = [status |-> FALSE, params |-> "none"]
  /\ stack = <<>>
  /\ live = 1..NumWide
  /\ lastSeen = 1..NumWide
  /\ systems = <<>>
  /\ deps = [u \in Units |-> <<>>]
  /\ schedule = [pc |-> "none", error |-> ""]
  /\ remainingDeps = <<>>
  /\ steps = <<>>
  /\ handles = [u \in Units |-> "none"]
  /\ shared = [u \in Units |-> NoShared]
  /\ unitRegistry = [u \in Units |-> {}]
  /\ tick = NoTick
  /\ stops = [u \in Units |-> 0]
  /\ handle = NoSystem
  /\ each = <<>>
  /\ res = [e \in Ents |-> NoRes]
  /\ arg = NoArg
  /\ receiver = Query0
  /\ made = Query0
  /\ out = NoOut
  /\ evt = NoEvents
  /\ settled = FALSE
  /\ store = NoStore

WideNext ==
  \/ \E p \in {"p1"} : update(p)
  \/ returnPreUpdate
  \/ returnMatched
  \/ returnUpdated
  \/ returnUnmatched
  \/ returnPostUpdate
  \/ \E e \in 1..NumWide, v \in {<<0>>, <<1>>} : edit(e, v)

WideSpec == WideInit /\ [][WideNext]_vars

\* an ECS alone: the program adds, removes, aliases and edits entities and
\* calls singleton getters
StoreInit ==
  /\ components = [e \in Ents |-> [c \in Components |-> <<>>]]
  /\ entities = <<>>
  /\ registry = <<>>
  /\ matched = {}
  /\ updating = [status |-> FALSE, params |-> "none"]
  /\ stack = <<>>
  /\ live = {}
  /\ lastSeen = {}
  /\ systems = <<>>
  /\ deps = [u \in Units |-> <<>>]
  /\ schedule = [pc |-> "none", error |-> ""]
  /\ remainingDeps = <<>>
  /\ steps = <<>>
  /\ handles = [u \in Units |-> "none"]
  /\ shared = [u \in Units |-> NoShared]
  /\ unitRegistry = [u \in Units |-> {}]
  /\ tick = NoTick
  /\ stops = [u \in Units |-> 0]
  /\ handle = NoSystem
  /\ each = <<>>
  /\ res = [e \in Ents |-> NoRes]
  /\ arg = NoArg
  /\ receiver = Query0
  /\ made = Query0
  /\ out = NoOut
  /\ evt = NoEvents
  /\ settled = FALSE
  /\ store = NoStore

StoreNext ==
  \/ \E id \in Ids, b \in Bodies : storeAdd(id, b)
  \/ \E id \in Ids : storeRemove(id)
  \/ \E a \in Aliases, id \in Ids : alias(a, id)
  \/ \E id \in Ids, v \in OptVal : storeEdit(id, v)
  \/ \E a \in Aliases, b \in Bodies, id \in Ids : getter(a, b, id)

StoreSpec == StoreInit /\ [][StoreNext]_vars

\* the queries alone: every store content is given to every query built by
\* at most MaxChain calls
QueryInit ==
  /\ \E held \in [Pool -> Contents] :
       components = [e \in Ents |-> IF e \in Pool THEN held[e]
                                   ELSE [c \in QComponents |-> <<>>]]
  /\ entities \in KeyOrders
  /\ registry = <<>>
  /\ matched = {}
  /\ updating = [status |-> FALSE, params |-> "none"]
  /\ stack = <<>>
  /\ live = {}
  /\ lastSeen = {}
  /\ systems = <<>>
  /\ deps = [u \in Units |-> <<>>]
  /\ schedule = [pc |-> "none", error |-> ""]
  /\ remainingDeps = <<>>
  /\ steps = <<>>
  /\ handles = [u \in Units |-> "none"]
  /\ shared = [u \in Units |-> NoShared]
  /\ unitRegistry = [u \in Units |-> {}]
  /\ tick = NoTick
  /\ stops = [u \in Units |-> 0]
  /\ handle = NoSystem
  /\ each = <<>>
  /\ res = [e \in Ents |-> NoRes]
  /\ arg = NoArg
  /\ receiver = Query0
  /\ made = Query0
  /\ out = NoOut
  /\ evt = NoEvents
  /\ settled = FALSE
  /\ store = NoStore

QueryNext ==
  \/ \E cs \in SUBSET QComponents : callHas(cs)
  \/ \E p \in Predicates : callWhere(p)
  \/ \E o \in Others : callAnd(o)
  \/ chain
  \/ \E e \in Range(entities) : callMatch(components[e])
  \/ callCount
  \/ callQuery
  \/ callQueryOnly

QuerySpec == QueryInit /\ [][QueryNext]_vars

\* the event streams alone
EventInit ==
  /\ components = [e \in Ents |-> [c \in Components |-> <<>>]]
  /\ entities = <<>>
  /\ registry = <<>>
  /\ matched = {}
  /\ updating = [status |-> FALSE, params |-> "none"]
  /\ stack = <<>>
  /\ live = {}
  /\ lastSeen = {}
  /\ systems = <<>>
  /\ deps = [u \in Units |-> <<>>]
  /\ schedule = [pc |-> "none", error |-> ""]
  /\ remainingDeps = <<>>
  /\ steps = <<>>
  /\ handles = [u \in Units |-> "none"]
  /\ shared = [u \in Units |-> NoShared]
  /\ unitRegistry = [u \in Units |-> {}]
  /\ tick = NoTick
  /\ stops = [u \in Units |-> 0]
  /\ handle = NoSystem
  /\ each = <<>>
  /\ res = [e \in Ents |-> NoRes]
  /\ arg = NoArg
  /\ receiver = Query0
  /\ made = Query0
  /\ out = NoOut
  /\ evt = NoEvents
  /\ settled = FALSE
  /\ store = NoStore

EventNext ==
  \/ \E st \in Streams, l \in Listeners : on(st, l)
  \/ \E st \in Streams, l \in Listeners : off(st, l)
  \/ \E st \in Streams : offAll(st)
  \/ \E st \in Streams : emit(st)
  \/ emitNext

EventSpec == EventInit /\ [][EventNext]_vars

\* the scheduler with its summary: every schedule the constructor builds is
\* formatted
FormatNext == construct \/ iterate \/ callFormat

FormatSpec == ScheduleInit /\ [][FormatNext]_vars

ScheduleSpec == ScheduleInit /\ [][ScheduleNext]_vars

\* the constructor is synchronous code: once called it runs on
ScheduleFair ==
  /\ ScheduleInit /\ [][ScheduleNext]_vars
  /\ WF_vars(construct) /\ WF_vars(iterate)

\* ============================================================== claims
Frames == {stack[i] : i \in DOMAIN stack}
ScanEvents(f, e) ==
  SelectSeq(Names(f, e), LAMBDA n : n \in {"matched", "updated"})
InScan(f) == f.pc \in {"preUpdate", "matched", "updated"}

\* C1: in every cycle each entity that matches when the scan reaches it gets
\* exactly one `updated` (none is passed over, none that fails is yielded);
\* it gets `matched`, once and right before that `updated`, exactly when it
\* was not registered (the registry changes during a scan only by the scan's
\* own additions, so: when it was not registered at the start of the cycle);
\* every event carries the params of the call; and an entity updated by the
\* cycle before gets no `matched` in this one.
C1_UpdatedOncePerMatch ==
  \A f \in Frames :
    /\ f.missed = {} /\ f.sound
    /\ \A e \in Ents :
         /\ ScanEvents(f, e) \in {<<>>, <<"matched">>, <<"matched", "updated">>,
                                  <<"updated">>}
         /\ ScanEvents(f, e) = <<"matched">> =>
              f = Top /\ f.pc = "matched" /\ f.cur = e
         /\ ScanEvents(f, e) # <<>> =>
              (Head(ScanEvents(f, e)) = "matched" <=> e \notin f.regStart)
         /\ \A i \in DOMAIN f.ev[e] : f.ev[e][i].params = f.params
         /\ InScan(f) /\ e \in lastSeen => ~Fired(f, "matched", e)

\* C1 witness: a cycle in which one entity, updated by the cycle before, is
\* updated again without `matched`, and another gets `matched` then `updated`
C1_Witness ==
  \E f \in Frames : \E e1, e2 \in Ents :
    /\ e1 \in lastSeen /\ InScan(f)
    /\ Names(f, e1) = <<"updated">>
    /\ Names(f, e2) = <<"matched", "updated">>

\* C2: when a cycle reaches postUpdate, the entities that got `unmatched` in
\* it are exactly those registered at its start and not updated by its scan,
\* and each got it exactly once.
C2_UnmatchedExactlyMissing ==
  \A f \in Frames : f.pc = "postUpdate" =>
    \A e \in Ents :
      IF e \in f.regStart /\ ~Fired(f, "updated", e)
      THEN Names(f, e) = <<"unmatched">>
      ELSE ~Fired(f, "unmatched", e)

\* C3: the registry is exactly the set of entities whose latest lifecycle
\* event is `matched` (at every moment, so also between updates); it is
\* empty at creation and changes only while an update call is running.
C3_RegistryIsLive ==
  /\ [](Range(registry) = live)
  /\ [](stack = <<>> /\ live = {} /\ lastSeen = {} /\ ~updating.status
          => registry = <<>>)
  /\ [][registry' # registry => stack # <<>> /\ stack' # <<>>]_vars

\* C3 witness: between updates, the registry holds the one entity whose
\* latest lifecycle event is `matched`, although that entity fails the query
\* by now and another stored entity satisfies it
C3_Witness ==
  /\ stack = <<>>
  /\ Len(entities) = 2
  /\ \E e1, e2 \in Ents :
       /\ registry = <<e1>> /\ live = {e1}
       /\ ~match(components[e1]) /\ match(components[e2])

\* the event a step emits for entity e in the frame at depth i, if any
EmittedIn(i, e) ==
  LET old == IF i <= Len(stack) THEN stack[i].ev[e] ELSE <<>>
      new == stack'[i].ev[e]
  IN IF Len(new) > Len(old) THEN new[Len(new)].name ELSE "none"

\* C4: per entity, `matched` and `unmatched` alternate, starting with
\* `matched`: `matched` fires only for an entity whose latest lifecycle event
\* is not `matched`, `unmatched` only for one whose latest is `matched`.
C4_Alternation ==
  [][\A i \in DOMAIN stack' : \A e \in Ents :
       /\ EmittedIn(i, e) = "matched" => e \notin live /\ e \in live'
       /\ EmittedIn(i, e) = "unmatched" => e \in live /\ e \notin live']_vars

\* C4 witness: an entity registered at the start of a cycle (so `matched`
\* has fired for it) gets `unmatched`
C4_Witness ==
  \E f \in Frames : \E e \in Ents :
    f.pc = "unmatched" /\ f.cur = e /\ e \in f.regStart /\ e \notin live

\* the orders in which one cycle may go from one event to the next
EventOrder ==
  {<<"preUpdate", "matched">>, <<"preUpdate", "updated">>,
   <<"preUpdate", "unmatched">>, <<"preUpdate", "postUpdate">>,
   <<"matched", "updated">>,
   <<"updated", "matched">>, <<"updated", "updated">>,
   <<"updated", "unmatched">>, <<"updated", "postUpdate">>,
   <<"unmatched", "unmatched">>, <<"unmatched", "postUpdate">>}

\* C5: every update call emits preUpdate once and first, postUpdate once and
\* last (the call returns from postUpdate and from nowhere else), matched and
\* updated only before its first unmatched, and every unmatched before
\* postUpdate.
C5_EventBracket ==
  [][/\ \A i \in DOMAIN stack :
          IF i <= Len(stack')
          THEN (stack'[i].pc # stack[i].pc \/ stack'[i].ev # stack[i].ev)
                 => <<stack[i].pc, stack'[i].pc>> \in EventOrder
          ELSE stack[i].pc = "postUpdate" /\ i = Len(stack)
      /\ Len(stack') > Len(stack) =>
           /\ Len(stack') = Len(stack) + 1
           /\ stack'[Len(stack')].pc = "preUpdate"
           /\ \A e \in Ents : stack'[Len(stack')].ev[e] = <<>>]_vars

\* C5 witness: a cycle at postUpdate that has emitted matched, updated and
\* unmatched
C5_Witness ==
  \E f \in Frames : \E e1, e2 \in Ents :
    /\ f.pc = "postUpdate"
    /\ Names(f, e1) = <<"matched", "updated">>
    /\ Names(f, e2) = <<"unmatched">>

\* C6: a registered entity that the scan of a cycle does not update gets
\* `unmatched` and no `updated` in that cycle and is then unregistered, so
\* that the next scan that yields it emits `matched` for it again.
C6_NoCoalescing ==
  \A f \in Frames : \A e \in Ents :
    /\ f.pc = "postUpdate" /\ e \in f.regStart /\ ~Fired(f, "updated", e)
         => Fired(f, "unmatched", e)
    /\ f.pc = "matched" /\ f.cur = e => e \notin f.regStart

\* C7: no update call begins while another is in progress: the call throws
\* and no event of a nested cycle fires.
C7_NoReentrancy == Len(stack) <= 1

\* C31: the predicate is evaluated when the scan reaches an entity: in every
\* cycle, an entity that an `updated` listener of the cycle edited while the
\* scan had yet to reach it is passed over exactly if it then fails and
\* yielded exactly if it then satisfies the query (with `matched` first when
\* it was not registered); and when the cycle reaches postUpdate, such an
\* entity that was registered at its start and got no `updated` has got
\* `unmatched` in this cycle.
C31_EvaluatedWhenReached ==
  \A f \in Frames : \A e \in f.changed :
    /\ e \notin f.missed /\ f.sound
    /\ ScanEvents(f, e) \in {<<>>, <<"matched">>, <<"matched", "updated">>,
                             <<"updated">>}
    /\ ScanEvents(f, e) # <<>> =>
         (Head(ScanEvents(f, e)) = "matched" <=> e \notin f.regStart)
    /\ f.pc = "postUpdate" /\ e \in f.regStart /\ ~Fired(f, "updated", e) =>
         Names(f, e) = <<"unmatched">>

\* C35: whenever no update call is in progress the observer is Idle, so that
\* the next update call starts a cycle: this holds after a call that returned
\* and after a call that ended with the exception of a listener.
C35_IdleAfterEveryCall == stack = <<>> => ~updating.status

\* -------------------------------------------------------- store claims
\* the entity the store holds under id matches the singleton's query
Matches(st, id) == id # 0 /\ match(st.entities[id][1])

\* C32: every remove(id) leaves every alias that resolved to another entity
\* resolving to that entity, and leaves get(alias) undefined for every alias
\* that resolved to id.
C32_RemoveDeletesOwnAliases ==
  [][store'.last.op = "remove" =>
       \A a \in Aliases :
         /\ get(store, a) = store'.last.id => get(store', a) = 0
         /\ get(store, a) \notin {0, store'.last.id} =>
              get(store', a) = get(store, a)]_vars

\* C33: a call of a singleton getter for an alias whose entity matches the
\* query returns that entity, calls no factory and changes neither the
\* entities nor the aliases; otherwise (the alias resolves to nothing or to an
\* entity that does not match) it calls the factory once, adds exactly one
\* entity, points the alias at it and returns it.
C33_SingletonIdempotent ==
  [][store'.last.op = "getter" =>
       LET a == store'.last.alias
           was == get(store, a)
       IN IF Matches(store, was)
          THEN /\ store'.last.ret = was
               /\ ~store'.last.made
               /\ store'.factories = store.factories
               /\ store'.entities = store.entities
               /\ store'.aliases = store.aliases
          ELSE /\ store'.last.made
               /\ store'.factories = store.factories + 1
               /\ \E id \in Ids :
                    /\ store.entities[id] = <<>>
                    /\ store'.entities[id] # <<>>
                    /\ \A i \in Ids \ {id} :
                         store'.entities[i] = store.entities[i]
                    /\ store'.aliases[a] = id
                    /\ store'.last.ret = id]_vars

\* C33 witness: after a factory has run, a getter call returned the stored
\* entity without running a factory
C33_Witness ==
  /\ store.last.op = "getter" /\ ~store.last.made
  /\ store.factories >= 1
  /\ get(store, store.last.alias) = store.last.ret

\* ---------------------------------------------------- Schedule claims
Built == schedule.pc = "built"
InStep(u, i) == i \in DOMAIN steps /\ u \in Range(steps[i])

\* the units u depends on through n or fewer dependencies
RECURSIVE Reach(_, _)
Reach(u, n) ==
  IF n = 0 THEN {}
  ELSE Range(deps[u]) \cup UNION {Reach(d, n - 1) : d \in Range(deps[u])}
\* the input the scheduler is specified for: every dependency is a scheduled
\* unit and no unit depends on itself through any chain
ValidGraph ==
  \A u \in Range(systems) :
    /\ Range(deps[u]) \subseteq Range(systems)
    /\ u \notin Reach(u, Cardinality(Units))

\* C8: in a built schedule every dependency of a unit is in a step strictly
\* before the step of the unit, whatever the order of the input array.
C8_DepsFirst ==
  Built =>
    \A u \in Range(systems) : \A d \in Range(deps[u]) :
      /\ \E i, j \in DOMAIN steps : InStep(d, i) /\ InStep(u, j)
      /\ \A i, j \in DOMAIN steps : InStep(d, i) /\ InStep(u, j) => i < j

\* C8 witness: a chain given in reverse order, scheduled dependency first
C8_Witness ==
  /\ Built
  /\ systems = <<"C", "B", "A">>
  /\ deps = [A |-> <<>>, B |-> <<"A">>, C |-> <<"B">>]
  /\ steps = << <<"A">>, <<"B">>, <<"C">> >>

\* C9: the constructor accepts every valid graph, and in a built schedule
\* every unit given is in exactly one step, at one place of it, no step is
\* empty, and the steps hold nothing but the units given.
C9_Partition ==
  /\ ValidGraph => schedule.pc # "failed"
  /\ Built =>
       /\ \A u \in Range(systems) :
            Cardinality({<<i, j>> \in (DOMAIN steps) \X (1..Len(systems)) :
                           j \in DOMAIN steps[i] /\ steps[i][j] = u}) = 1
       /\ \A i \in DOMAIN steps :
            steps[i] # <<>> /\ Range(steps[i]) \subseteq Range(systems)

\* C9 witness: three units in two steps, two of them side by side
C9_Witness ==
  /\ Built
  /\ Len(systems) = 3
  /\ Len(steps) = 2
  /\ Len(steps[1]) = 2
  /\ Len(steps[2]) = 1

\* C10: in a built schedule a unit without dependencies is in the first
\* step, and any other unit is in the step right after the last step that
\* holds one of its dependencies.
C10_Layered ==
  Built =>
    \A u \in Range(systems) : \A i \in DOMAIN steps : InStep(u, i) =>
      IF deps[u] = <<>> THEN i = 1
      ELSE /\ \E d \in Range(deps[u]) : InStep(d, i - 1)
           /\ \A d \in Range(deps[u]) : \A j \in DOMAIN steps :
                InStep(d, j) => j < i

\* C10 witness: C depends on A and B, B on A: three steps of one unit
C10_Witness ==
  /\ Built
  /\ systems = <<"A", "B", "C">>
  /\ deps = [A |-> <<>>, B |-> <<"A">>, C |-> <<"A", "B">>]
  /\ steps = << <<"A">>, <<"B">>, <<"C">> >>

\* some scheduled unit depends on itself through a chain of any length
Cyclic == \E u \in Range(systems) : u \in Reach(u, Cardinality(Units))

\* C11: when the dependency relation of the units given has a cycle, the
\* constructor never completes: its loop runs at most once per unit and the
\* only way out of it is the throw of 'Invalid dependency graph'.
C11_CycleRejected ==
  Cyclic =>
    /\ ~Built
    /\ schedule.pc = "loop" => Len(steps) < Len(systems)
    /\ schedule.pc = "failed" => schedule.error = "Invalid dependency graph"

\* C11 witness: C is placed, then A and B, which depend on each other, make
\* the second step empty and the constructor throws
C11_Witness ==
  /\ schedule = [pc |-> "failed", error |-> "Invalid dependency graph"]
  /\ systems = <<"A", "B", "C">>
  /\ deps = [A |-> <<"B">>, B |-> <<"A">>, C |-> <<>>]
  /\ steps = << <<"C">>, <<>> >>

\* the constructor has returned or thrown
Ended == schedule.pc \in {"built", "failed"}
\* the units placed in the steps
Placed(st) == UNION {Range(st[i]) : i \in DOMAIN st}

\* C34: construction terminates: every iteration of the loop adds one step
\* and either places in it at least one unit, none of them placed before, and
\* deletes them from the Map, or throws 'Invalid dependency graph'; the number
\* of iterations never exceeds the number of units; and the constructor
\* eventually returns or throws.
C34_Terminates ==
  /\ [][schedule.pc = "loop" =>
          /\ Len(steps') = Len(steps) + 1
          /\ Len(steps') <= Len(systems)
          /\ \/ /\ steps'[Len(steps')] # <<>>
                /\ Range(steps'[Len(steps')]) \cap Placed(steps) = {}
                /\ Len(remainingDeps') < Len(remainingDeps)
             \/ schedule' = [pc |-> "failed",
                             error |-> "Invalid dependency graph"]]_vars
  /\ <>Ended

\* C34 witness: a construction that ran as many iterations as there are units
C34_Witness ==
  /\ Ended /\ Len(systems) = 3 /\ Len(steps) = 3

\* some scheduled unit declares a dependency that is not scheduled
MissingDep == \E u \in Range(systems) : ~(Range(deps[u]) \subseteq Range(systems))

\* C38: when a scheduled unit declares a dependency on a unit that is not
\* scheduled, the constructor never returns a schedule, the dependent unit is
\* never placed in a step, and the only way out of the loop is the throw of
\* 'Invalid dependency graph'.
C38_MissingDepRejected ==
  MissingDep =>
    /\ ~Built
    /\ \A u \in Range(systems) :
         ~(Range(deps[u]) \subseteq Range(systems)) => u \notin Placed(steps)
    /\ schedule.pc = "failed" => schedule.error = "Invalid dependency graph"

\* C38 witness: B depends on C, which is not scheduled: A is placed, the
\* second step is empty and the constructor throws
C38_Witness ==
  /\ schedule = [pc |-> "failed", error |-> "Invalid dependency graph"]
  /\ systems = <<"A", "B">>
  /\ deps["A"] = <<>> /\ deps["B"] = <<"C">>
  /\ steps = << <<"A">>, <<>> >>

\* ------------------------------------------------------- tick claims
InTick == tick.pc \in {"call", "scan", "done"}
Before(w, u) ==
  \E i, j \in DOMAIN steps : i < j /\ InStep(w, i) /\ InStep(u, j)
\* the explicit step lists a caller may declare: disjoint non-empty steps
StepLists ==
  {st \in UNION {[1..n -> Distinct] : n \in 1..2} :
     \A i, j \in DOMAIN st : i # j => Range(st[i]) \cap Range(st[j]) = {}}
Precedes(order, w, u) ==
  /\ \E k, l \in DOMAIN order : order[k] = w /\ order[l] = u
  /\ \A k, l \in DOMAIN order : order[k] = w /\ order[l] = u => k < l

\* C12: during Schedule.update at most one unit is inside its handle.update;
\* a unit is inside it or done with it only when every unit of every earlier
\* step, and so every dependency of it, is done with its own; when the tick
\* is over every unit is done.  For any explicit list of steps, too, the
\* units of a step are visited before those of every later step.
C12_StepOrder ==
  /\ InTick =>
       /\ \A u \in Units :
            /\ tick.status[u] = "run" <=> tick.pc = "scan" /\ u = Unit
            /\ tick.status[u] # "wait" =>
                 /\ u \in Range(systems)
                 /\ \A w \in Units : Before(w, u) => tick.status[w] = "done"
                 /\ \A d \in Range(deps[u]) : tick.status[d] = "done"
       /\ tick.pc = "done" =>
            \A u \in Range(systems) : tick.status[u] = "done"
  /\ schedule.pc = "from" =>
       \A st \in StepLists : \A i, j \in DOMAIN st : i < j =>
         \A w \in Range(st[i]), u \in Range(st[j]) :
           Precedes(visitOrder(st), w, u)

\* C12 witness: B depends on A and is given first; B is inside its update
\* when A is done with its own
C12_Witness ==
  /\ tick.pc = "scan"
  /\ systems = <<"B", "A">>
  /\ deps["B"] = <<"A">>
  /\ tick.status["A"] = "done"
  /\ tick.status["B"] = "run"

\* C13: what a unit decides for an entity in a tick (onUpdated or not)
\* follows the latest value written to the entity in this tick by a unit
\* of an earlier step.
C13_ReadAfterWrite ==
  InTick =>
    \A u \in Units, e \in Ents :
      /\ tick.decision[u][e] # "none"
      /\ tick.lastWrite[e] # <<>>
      /\ Before(tick.lastWrite[e][1].unit, u)
      => tick.decision[u][e] =
           IF tick.lastWrite[e][1].value[1] > 0 THEN "updated" ELSE "skipped"

\* C13 witness: a unit of the first step has set the health of an entity to
\* 0 in this tick; a unit of the second step, which had the entity
\* registered, passes it over
C13_Witness ==
  /\ InTick
  /\ \E u \in Units, e \in Ents :
       /\ tick.before[e]["health"] = <<1>>
       /\ tick.lastWrite[e] # <<>>
       /\ tick.lastWrite[e][1].value = <<0>>
       /\ Before(tick.lastWrite[e][1].unit, u)
       /\ tick.decision[u][e] = "skipped"
       /\ tick.status[u] = "done"
       /\ e \notin unitRegistry[u]

\* C14: when Schedule.from rejects because an attachment failed, no shared
\* resource that was created is left undestroyed.
C14_NoLeakOnFailure ==
  schedule.pc = "rejected" =>
    \A u \in Units : shared[u].state # "created"

\* C15: Schedule.stop() stops no handle twice, and when it is over it has
\* stopped the handle of every unit once.
C15_StopOnce ==
  /\ \A u \in Units : stops[u] <= 1
  /\ \A u \in Units \ Range(systems) : stops[u] = 0
  /\ schedule.pc = "stopped" => \A u \in Range(systems) : stops[u] = 1

\* C15 witness: a stopped schedule of three units in three steps
C15_Witness ==
  /\ schedule.pc = "stopped"
  /\ Len(steps) = 3
  /\ \A u \in Units : stops[u] = 1

\* C16: shared.create is called once per unit; the attachment resolves only
\* when the resource exists, so the unit is updated only when it does;
\* updates neither create nor destroy it; stop() calls shared.destroy once.
C16_SharedOnce ==
  \A u \in Units :
    /\ shared[u].creates <= 1
    /\ shared[u].destroys = stops[u]
    /\ handles[u] = "attached" =>
         shared[u].creates = 1 /\ shared[u].state \in {"created", "destroyed"}
    /\ InTick /\ tick.status[u] # "wait" => shared[u].state = "created"
    /\ schedule.pc = "built" /\ u \in Range(systems) =>
         shared[u] = [state |-> "created", creates |-> 1, destroys |-> 0]
    /\ schedule.pc = "stopped" /\ u \in Range(systems) =>
         shared[u] = [state |-> "destroyed", creates |-> 1, destroys |-> 1]

\* C16 witness: a unit updated in two ticks and then stopped
C16_Witness ==
  /\ schedule.pc = "stopped"
  /\ \E u \in Range(systems) :
       /\ unitRegistry[u] # {}
       /\ shared[u] = [state |-> "destroyed", creates |-> 1, destroys |-> 1]

\* the unit is attached and no handle.update() call is in progress
BetweenUpdates == handle.pc = "attached" /\ stack = <<>>
\* the unit holds a live resource for the entity
HasResource(e) == e \in Range(each) /\ res[e].latest = "live"

\* C17: between updates of an attached unit, an entity has a live per-entity
\* resource exactly if it is in the registry of the unit's observer, no
\* entity has more than one, and the each.create calls minus the each.destroy
\* calls are as many as the registry has entities.
C17_ResourceParity ==
  BetweenUpdates =>
    /\ \A e \in Ents : HasResource(e) <=> e \in Range(registry)
    /\ \A e \in Ents : ~res[e].older
    /\ handle.balance = Len(registry)

\* handle.stop() has been called
Stopped == handle.pc \in {"stopping", "stopped"}
\* how many destroy calls of stop() were for x
Destroys(x) == Cardinality({i \in DOMAIN handle.log : handle.log[i] = x})

\* C18: stop() destroys the per-entity resource of every entity that is still
\* registered, once each, and calls the destroy of the shared resource once,
\* after all of those.
C18_StopDestroysAll ==
  Stopped =>
    /\ \A e \in Range(registry) :
         /\ Destroys(e) = 1
         /\ res[e].latest = "dead" /\ ~res[e].twice /\ ~res[e].older
    /\ Destroys(0) = 1
    /\ handle.log[Len(handle.log)] = 0
    /\ handle.shared = "destroyed"

\* the observer emits event `name` for entity e in this step
Emits(name, e) ==
  /\ Emitted
  /\ stack'[Len(stack')].pc = name
  /\ stack'[Len(stack')].cur = e
\* callback `name` is called for entity e in this step
Calls(name, e) ==
  arg'.tog # arg.tog /\ arg'.name = name /\ arg'.entity = e

\* C19: while the unit is attached, each `matched` event of an entity calls
\* each.create once and no other step calls it; each `unmatched` event calls
\* each.destroy once, on the resource created at the entity's latest match
\* and still live, and no other step calls it.
C19_NoPooling ==
  [][handle.pc = "attached" /\ ~(handle'.pc \in {"stopping", "stopped"}) =>
       \A e \in Ents :
         /\ Emits("matched", e) <=> Calls("create", e)
         /\ Emits("matched", e) =>
              /\ res'[e].latest = "live" /\ ~res'[e].older
              /\ res[e].latest # "live"
              /\ handle'.balance = handle.balance + 1
         /\ Emits("unmatched", e) <=> Calls("destroy", e)
         /\ Emits("unmatched", e) =>
              /\ arg'.each = "live"
              /\ res'[e].latest = "dead" /\ ~res'[e].twice
              /\ handle'.balance = handle.balance - 1]_vars

\* C20: in each handle.update, every event of the observer calls the callback
\* of the unit for it, with the params of this call and the shared resource:
\* preUpdate calls onPreUpdate, postUpdate calls onPostUpdate, and updated
\* calls onUpdated for that entity with the live resource created at its
\* latest match: a resource not given to onUpdated before exactly if the
\* entity was matched in this cycle.  No other step calls onUpdated.
C20_CallbackArguments ==
  [][handle.pc = "attached" =>
       /\ \A e \in Ents :
            /\ Emits("updated", e) <=> Calls("onUpdated", e)
            /\ Emits("updated", e) =>
                 /\ arg'.params = stack'[Len(stack')].params
                 /\ arg'.shared = "live"
                 /\ arg'.each = "live"
                 /\ arg'.fresh <=> Fired(stack'[Len(stack')], "matched", e)
       /\ Emits("preUpdate", 0) <=> Calls("onPreUpdate", 0)
       /\ Emits("postUpdate", 0) <=> Calls("onPostUpdate", 0)
       /\ Emits("preUpdate", 0) \/ Emits("postUpdate", 0) =>
            /\ arg'.params = stack'[Len(stack')].params
            /\ arg'.shared = "live"]_vars

\* C21: no listener of the unit ever raises 'Each resource not found for
\* updated entity' or 'Each resource not found for unmatched entity': the
\* lookup of the resource in `updated` and `unmatched` always succeeds.
C21_LookupSucceeds ==
  /\ handle.pc # "crashed"
  /\ handle.error = ""

\* ------------------------------------------------------- Query claims
\* the stored entities a query yields
Yielded(qy) == Range(queryAll(qy, entities, components))

\* C22: after q.has(cs), the returned query matches only entities that q
\* matches, on every entity and on the stored set, and q is as it was before
\* the call.
C22_HasMonotone ==
  out.op = "has" =>
    /\ \A b \in Contents : filter(made, b) => filter(out.self, b)
    /\ Yielded(made) \subseteq Yielded(out.self)
    /\ receiver = out.self

\* has() was called on a query that has a where() and narrowed it
C22_Witness ==
  /\ out.op = "has" /\ receiver.op = "where" /\ out.with # {}
  /\ Yielded(made) # Yielded(receiver)
  /\ Yielded(made) # {}

\* the components named in a has of the chain, and-ed queries included
RECURSIVE Required(_)
Required(qy) ==
  CASE qy.op = "query" -> {}
    [] qy.op = "has" -> qy.cs \cup Required(qy.base)
    [] qy.op = "where" -> Required(qy.base)
    [] qy.op = "and" -> Required(qy.base) \cup Required(qy.other)
\* the predicates of the where calls of the chain, and-ed queries included
RECURSIVE Wheres(_)
Wheres(qy) ==
  CASE qy.op = "query" -> {}
    [] qy.op = "has" -> Wheres(qy.base)
    [] qy.op = "where" -> {qy.p} \cup Wheres(qy.base)
    [] qy.op = "and" -> Wheres(qy.base) \cup Wheres(qy.other)
Conjunction(qy, b) ==
  /\ \A c \in Required(qy) : b[c] # <<>>
  /\ \A p \in Wheres(qy) : holds(p, b)

\* C23: a query built by a chain of has / where / and matches an entity
\* exactly when the entity has every component named in a has and passes
\* every where predicate, those of the and-ed queries included; q1.and(q2)
\* matches the intersection of what q1 and q2 match, and the same entities as
\* q2.and(q1).
C23_Conjunction ==
  /\ \A b \in Contents : matchEntity(made, b) <=> Conjunction(made, b)
  /\ out.op = "match" => (out.value <=> Conjunction(receiver, out.with))
  /\ out.op = "and" =>
       /\ Yielded(made) = Yielded(out.self) \cap Yielded(out.with)
       /\ \A b \in Contents :
            /\ filter(made, b) <=> filter(out.self, b) /\ filter(out.with, b)
            /\ filter(made, b) <=> filter(QueryAnd(out.with, out.self), b)

\* and() joined a has query with a where query; each of the two matches a
\* stored entity and the joined query matches none
C23_Witness ==
  /\ out.op = "and" /\ receiver.op = "has" /\ out.with.op = "where"
  /\ Yielded(receiver) # {} /\ Yielded(out.with) # {}
  /\ Yielded(made) = {}

\* the stored entities that satisfy the conditions of the chain, in store
\* order
Matching(qy) ==
  SelectSeq(entities, LAMBDA e : Conjunction(qy, components[e]))

\* C24: query(store) yields exactly the stored entities that match, each
\* once, in store order; has(c) asks only for the key c, so an entity with
\* health 0 matches has(health); count(store) is the number of entities
\* query(store) yields.
C24_QueryAndCount ==
  /\ out.op = "query" =>
       /\ out.value = Matching(receiver)
       /\ \A i, j \in DOMAIN out.value : out.value[i] = out.value[j] => i = j
  /\ \A e \in Range(entities) :
       components[e]["health"] = <<0>> =>
         e \in Yielded(QueryHas(Query0, {"health"}))
  /\ out.op = "count" =>
       out.value = Len(queryAll(receiver, entities, components))

\* count() on has(health) over two stored entities, of which only the one
\* with health 0 has the key
C24_Witness ==
  /\ out.op = "count" /\ out.value = 1
  /\ receiver = QueryHas(Query0, {"health"})
  /\ Len(entities) = 2
  /\ \E e \in Range(entities) : components[e]["health"] = <<0>>

\* C25: queryOnly(store) returns the matching entity when exactly one stored
\* entity matches, throws 'No entity matches' when none does and 'More than
\* one entity matches' when two or more do; the store and its entities are
\* as before the call.
C25_QueryOnly ==
  [][out'.op = "queryOnly" =>
       LET found == Matching(receiver) IN
       /\ Len(found) = 1 => out'.error = "" /\ out'.value = found
       /\ Len(found) = 0 =>
            out'.error = "No entity matches" /\ out'.value = <<>>
       /\ Len(found) >= 2 =>
            out'.error = "More than one entity matches" /\ out'.value = <<>>
       /\ entities' = entities /\ components' = components
       /\ receiver' = receiver]_vars

\* queryOnly threw because two stored entities pass a where()
C25_Witness ==
  /\ out.op = "queryOnly" /\ out.error = "More than one entity matches"
  /\ receiver.op = "where"
  /\ Len(Matching(receiver)) = 2

\* ------------------------------------------------------- event claims
\* C26: an emit calls every subscribed listener once: when it has returned,
\* a listener subscribed throughout was called once, a listener not
\* subscribed during it was not called, and none was called twice.
C26_IndependentListeners ==
  /\ evt.run.pc = "done" =>
       \A l \in Listeners :
         /\ l \in evt.sub0 \ evt.touched => evt.got[l] = 1
         /\ l \notin evt.sub0 \cup evt.touched => evt.got[l] = 0
         /\ evt.got[l] <= 1

\* ------------------------------------------------------ format claims
\* the text of the first n steps, built step by step from the first
RECURSIVE Summary(_, _)
Summary(st, n) ==
  IF n = 0 THEN ""
  ELSE LET names == [i \in DOMAIN st[n] |-> st[n][i]]
           RECURSIVE Listed(_)
           Listed(k) == IF k = 0 THEN ""
                        ELSE IF k = 1 THEN names[1]
                        ELSE Listed(k - 1) \o ", " \o names[k]
           line == "Step " \o ToString(n - 1) \o ": " \o Listed(Len(names))
       IN IF n = 1 THEN line ELSE Summary(st, n - 1) \o "\n" \o line
\* the length of that text: per step 'Step i: ' and its names with a ', '
\* between two, and a newline between two steps
RECURSIVE SummaryLen(_, _)
SummaryLen(st, n) ==
  IF n = 0 THEN 0
  ELSE SummaryLen(st, n - 1) + (IF n > 1 THEN 1 ELSE 0) + 8 + Len(st[n])
       + 2 * (Len(st[n]) - 1)

\* C27: formatSchedule returns one line per step, in step order, joined by
\* newlines; line i, counted from 0, is 'Step i: ' followed by the names of
\* the units of that step joined by ', ' in the order of the step.
C27_FormatSchedule ==
  out.op = "formatSchedule" =>
    /\ out.value = Summary(steps, Len(steps))
    /\ Len(out.value) = SummaryLen(steps, Len(steps))
    /\ steps = <<<<"A">>, <<"B">>>> => out.value = "Step 0: A\nStep 1: B"

\* a schedule of two steps with two units in its first step was formatted
C27_Witness ==
  /\ out.op = "formatSchedule"
  /\ Len(steps) = 2 /\ Len(steps[1]) = 2
  /\ out.value = "Step 0: " \o steps[1][1] \o ", " \o steps[1][2]
                   \o "\nStep 1: " \o steps[2][1]

\* C28: in stop(), the listeners of the observer are detached after every
\* per-entity destroy and after the destroy of the shared resource.
C28_DetachLast ==
  Stopped =>
    \A i, j \in DOMAIN handle.log :
      handle.log[i] = -1 /\ handle.log[j] # -1 => j < i

\* C29: the promise of stop() resolves only when every destroy callback that
\* stop() called, per-entity or shared, has run to completion.
C29_StopAwaitsDestroys ==
  handle.pc = "stopped" => handle.pending = {}

\* ------------------------------------------------------ attach claims
\* the length of the longest chain of dependencies below a unit
RECURSIVE Level(_)
Level(u) ==
  IF deps[u] = <<>> THEN 0
  ELSE 1 + (CHOOSE n \in {Level(deps[u][i]) : i \in DOMAIN deps[u]} :
              \A i \in DOMAIN deps[u] : Level(deps[u][i]) <= n)
\* the units by level, each level in the order of the array
Layers ==
  LET top == CHOOSE n \in {Level(u) : u \in Range(systems)} :
               \A u \in Range(systems) : Level(u) <= n
  IN [k \in 1..(top + 1) |-> SelectSeq(systems, LAMBDA u : Level(u) = k - 1)]
RECURSIVE Flat(_)
Flat(st) == IF st = <<>> THEN <<>> ELSE Head(st) \o Flat(Tail(st))

\* C30: in whatever order the shared.create operations complete, every unit
\* of the array is attached exactly once before the schedule is constructed,
\* and the steps and the order in which Schedule.update visits the units
\* depend on the array and the dependencies only.
C30_AttachOrderIrrelevant ==
  /\ schedule.pc \in {"new", "loop", "built", "stopping", "stopped"} =>
       \A u \in Units :
         IF u \in Range(systems)
         THEN handles[u] = "attached" /\ shared[u].creates = 1
         ELSE handles[u] = "none" /\ shared[u].creates = 0
  /\ Built =>
       /\ steps = Layers
       /\ visitOrder(steps) = Flat(Layers)

\* a schedule of three units in two steps was built after a shared.create
\* completed before that of a unit earlier in the array
C30_Witness ==
  /\ Built /\ settled
  /\ Len(systems) = 3 /\ Len(steps) = 2

\* ------------------------------------------------- claims: use after stop
\* C36: whatever update and stop calls are made on the handle, the shared
\* destroy is called at most once and no per-entity resource is destroyed
\* twice.
C36_NoDoubleDestroy ==
  /\ Destroys(0) <= 1
  /\ \A e \in Ents : ~res[e].twice

\* C37: once stop() has run, no step of an update call invokes a callback of
\* the unit or creates or destroys a per-entity resource: the map, the
\* resources, their balance and the last callback call stay as they are.
C37_NoCallbackAfterStop ==
  [][Stopped /\ stack' # stack =>
       /\ UNCHANGED <<each, res, arg>>
       /\ handle'.balance = handle.balance]_vars

\* C37 witness: after stop(), an update call has registered an entity that
\* never had a resource, and no resource was made for it
C37_Witness ==
  /\ Stopped /\ stack # <<>>
  /\ Top.pc = "updated" /\ Top.cur \in Range(registry)
  /\ res[Top.cur].latest = "none" /\ Top.cur \notin Range(each)
  /\ arg.name # "onUpdated"

\* --------------------------------------- claims: failed construction
\* C39: when the construction that Schedule.from runs ends with the throw of
\* 'Invalid dependency graph', no shared resource that was created is left
\* undestroyed.
C39_NoLeakOnInvalidGraph ==
  schedule = [pc |-> "failed", error |-> "Invalid dependency graph"] =>
    \A u \in Units : shared[u].state # "created"
====
